---------------------------- MODULE Spec2Model ----------------------------
(***************************************************************************)
(* Passport extraction pipeline: the batch orchestrators                   *)
(* (api/batch-process-images.js, api/process-passport-pdf.js), the         *)
(* extraction client extractPassportData in its several variants, the      *)
(* image normalizer safeProcessImage / processImage with its cache, the     *)
(* validator validatePassportData in its three versions, and the Express   *)
(* routes for one passport image and for one PDF document.                 *)
(*                                                                         *)
(* Numbers: a confidence value is kept in thousandths (0.2 is 200); the    *)
(* value toFixed(2) yields is kept in hundredths.                          *)
(***************************************************************************)
EXTENDS Integers, Sequences, FiniteSets, TLC

VARIABLES
    \* ---- batch handlers ----
    pc,            \* position of the handler: idle, loading, chunks, csv, done
    kind,          \* which handler runs: "image" | "pdf" | "none"
    files,         \* req.files: the uploaded files, each named by its original position
    numPages,      \* pdfDoc.numPages
    format,        \* req.query.format, as read once the last chunk has drained
    chunks,        \* const chunks = []
    i,             \* loop variable of the chunk loop (0-based)
    status,        \* per item: the await its closure is suspended at, or its outcome
    attempts,      \* per item: how many times its closure was started
    chunkResults,  \* per slot of the chunk in flight: what the closure returned
    results,       \* const results = []
    errors,        \* const errors = []
    dispatched,    \* number of Promise.all(chunk.map(...)) calls made so far
    response,      \* what res.status(..).json(..) / send(..) was given
    \* ---- extraction client: one call of extractPassportData ----
    xpc,           \* idle, create (awaiting chat.completions.create), returned, threw
    xvariant,      \* which extractPassportData runs
    xcreates,      \* calls of openai.chat.completions.create made by this call
    xrequests,     \* requests the client sent to the inference service for this call
    xcontent,      \* response.choices[0].message.content, once create has resolved
    xcause,        \* the error the catch block received (or that propagated)
    xout,          \* the value the call returned
    \* ---- image normalizer: safeProcessImage / processImage of one module ----
    site,          \* the module whose normalizer (and cache) this is
    imageCache,    \* the Map, as its entries in insertion order
    calls,         \* per call slot: the await it is suspended at, and its outcome
    started,       \* number of normalizer calls made so far
    \* ---- validator: the calls of validatePassportData on one result ----
    passport,      \* the extraction result handed to the validator
    validator,     \* which version of validatePassportData is in use
    clock,         \* the day new Date() falls on, as yyyymmdd
    validations,   \* the calls made so far: day, argument afterwards, result
    \* ---- one request to a route for a single image or a single document ----
    route,         \* "extract-passport" | "extract-pdf-passport" | "none"
    served,        \* the module whose handler serves the request
    apiKey,        \* process.env.OPENAI_API_KEY is set
    nodeEnv,       \* process.env.NODE_ENV
    rpc,           \* the await the handler is suspended at, or idle / done
    pageCount,     \* pdfDoc.numPages
    pageNum,       \* loop variable of the page loop
    sections,      \* sections of the page still to be sent for inference
    extractedData, \* const extractedData = []: the page each element came from
    effects,       \* what the request has done so far, in order
    reply          \* what res.json(..) was given

batchVars == <<pc, kind, files, numPages, format, chunks, i, status, attempts,
               chunkResults, results, errors, dispatched, response>>

extractVars == <<xpc, xvariant, xcreates, xrequests, xcontent, xcause, xout>>

imageVars == <<site, imageCache, calls, started>>

validateVars == <<passport, validator, clock, validations>>

routeVars == <<route, served, apiKey, nodeEnv, rpc, pageCount, pageNum, sections,
               extractedData, effects, reply>>

nonBatchVars == <<extractVars, imageVars, validateVars, routeVars>>

nonExtractVars == <<batchVars, imageVars, validateVars, routeVars>>

nonImageVars == <<batchVars, extractVars, validateVars, routeVars>>

nonValidateVars == <<batchVars, extractVars, imageVars, routeVars>>

nonRouteVars == <<batchVars, extractVars, imageVars, validateVars>>

vars == <<batchVars, extractVars, imageVars, validateVars, routeVars>>

\* ------------------------------------------------------------------------
\* Bounds of the model
\* ------------------------------------------------------------------------
MaxFiles == 6
MaxPages == 7
MaxDocPages == 3
MaxLiveFiles == 6
MaxLivePages == 4
MaxSections == 2

\* ------------------------------------------------------------------------
\* Program constants
\* ------------------------------------------------------------------------
IMAGE_MAX_CONCURRENT == 5
PDF_MAX_CONCURRENT == 3

Min(a, b) == IF a < b THEN a ELSE b

\* the value a closure returns from its catch block
Null == [isNull |-> TRUE]

\* a slot of chunkResults whose promise has not resolved yet
Unresolved == [isNull |-> FALSE]

MAX_CONCURRENT == IF kind = "pdf" THEN PDF_MAX_CONCURRENT ELSE IMAGE_MAX_CONCURRENT

\* Array.prototype.slice(from, to) on a 0-based array
Slice(arr, from, to) == SubSeq(arr, from + 1, Min(to, Len(arr)))

\* for (let i = 0; i < files.length; i += MAX_CONCURRENT) chunks.push(files.slice(i, i + MAX_CONCURRENT))
RECURSIVE ImageChunkLoop(_, _, _)
ImageChunkLoop(fs, k, acc) ==
    IF k < Len(fs)
    THEN ImageChunkLoop(fs, k + IMAGE_MAX_CONCURRENT,
                        Append(acc, Slice(fs, k, k + IMAGE_MAX_CONCURRENT)))
    ELSE acc

ImageChunks(fs) == ImageChunkLoop(fs, 0, <<>>)

\* for (let i = 1; i <= numPages; i += MAX_CONCURRENT)
\*   chunks.push(Array.from({length: Math.min(MAX_CONCURRENT, numPages - i + 1)}, (_, index) => i + index))
RECURSIVE PageChunkLoop(_, _, _)
PageChunkLoop(n, k, acc) ==
    IF k <= n
    THEN PageChunkLoop(n, k + PDF_MAX_CONCURRENT,
                       Append(acc, [index \in 1..Min(PDF_MAX_CONCURRENT, n - k + 1) |->
                                        k + (index - 1)]))
    ELSE acc

PageChunks(n) == PageChunkLoop(n, 1, <<>>)
\* an index that forgets the chunk offset
FileIndexInChunk(ci, index) == index

\* const fileIndex = i * MAX_CONCURRENT + index   (index is 0-based)
FileIndex(ci, index) == ci * IMAGE_MAX_CONCURRENT + index

\* a closure that is never seen to return
NeverSettled(s) == FALSE

\* the closure of the item has returned (a value, or null from its catch block)
Settled(s) == s \in {"returned", "caught"}
\* a wait that ends with the first closure to return (Promise.race for Promise.all)
ChunkSettledAny(ci) == \E index \in 1..Len(chunks[ci + 1]) : Settled(status[chunks[ci + 1][index]])

\* Promise.all resolves once every closure of the chunk has returned
ChunkSettled(ci) == \A index \in 1..Len(chunks[ci + 1]) : Settled(status[chunks[ci + 1][index]])
\* a filter that keeps the null entries of failed items
FilterNothing(arr) == arr

\* a filter that also turns the order of the chunk around
FilterBooleanReversed(arr) ==
    LET kept == SelectSeq(arr, LAMBDA x : x # Null)
    IN [x \in 1..Len(kept) |-> kept[Len(kept) + 1 - x]]

\* chunkResults.filter(Boolean)
FilterBoolean(arr) == SelectSeq(arr, LAMBDA x : x # Null)

\* what extractPassportData of api/openai.js hands back to the batch closure
BatchExtractOutcomes ==
    { [extractedData |-> "parsed", overall_confidence |-> 85],
      [extractedData |-> "empty",  overall_confidence |-> 0] }
\* a response that always carries the errors list
ErrorsSentAlways(errs) == TRUE

\* errors: errors.length > 0 ? errors : undefined
\* (JSON.stringify leaves a key whose value is undefined out of the body)
ErrorsSent(errs) == Len(errs) > 0

\* res.status(200).json({ batchId, summary, results, errors })
JsonResponse(total, res, errs) ==
    LET body == [ status  |-> 200,
                  type    |-> "json",
                  summary |-> [ total |-> total,
                                successfullyProcessed |-> Len(res),
                                errors |-> Len(errs) ],
                  results |-> res ]
    IN  IF ErrorsSent(errs) THEN body @@ [ errors |-> errs ] ELSE body

ErrorResponse(code, msg) == [ status |-> code, type |-> "json", error |-> msg ]

CsvResponse(res) == [ status |-> 200, type |-> "csv", rows |-> Len(res) ]

NoResponse == [ status |-> 0, type |-> "none" ]

\* chunk.map(async ...) starts every closure of the chunk; each runs to its first await
StartedStatus(base, chunk, firstAwait) ==
    [k \in DOMAIN base |->
        IF \E index \in 1..Len(chunk) : chunk[index] = k THEN firstAwait ELSE base[k]]

StartedAttempts(base, chunk) ==
    [k \in DOMAIN base |->
        base[k] + Cardinality({index \in 1..Len(chunk) : chunk[index] = k})]

DispatchChunk(chunk, baseStatus, baseAttempts, firstAwait) ==
    /\ status' = StartedStatus(baseStatus, chunk, firstAwait)
    /\ attempts' = StartedAttempts(baseAttempts, chunk)
    /\ chunkResults' = [index \in 1..Len(chunk) |-> Unresolved]
    /\ dispatched' = dispatched + 1

BatchInit ==
    /\ pc = "idle"
    /\ kind = "none"
    /\ files = <<>>
    /\ numPages = 0
    /\ format = "json"
    /\ chunks = <<>>
    /\ i = 0
    /\ status = <<>>
    /\ attempts = <<>>
    /\ chunkResults = <<>>
    /\ results = <<>>
    /\ errors = <<>>
    /\ dispatched = 0
    /\ response = NoResponse

\* batch-process-images.js handler, up to the first Promise.all
ImageRequest(n) ==
    /\ pc = "idle"
    /\ kind' = "image"
    /\ files' = [k \in 1..n |-> k - 1]
    /\ results' = <<>>
    /\ errors' = <<>>
    /\ i' = 0
    /\ UNCHANGED <<numPages, format>>
    /\ IF n = 0
       THEN /\ pc' = "done"
            /\ response' = ErrorResponse(400, "No images provided")
            /\ UNCHANGED <<chunks, status, attempts, chunkResults, dispatched>>
       ELSE /\ pc' = "chunks"
            /\ chunks' = ImageChunks(files')
            /\ UNCHANGED response
            /\ DispatchChunk(chunks'[1],
                             [k \in 0..(n - 1) |-> "pending"],
                             [k \in 0..(n - 1) |-> 0],
                             "processImage")
    /\ UNCHANGED nonBatchVars

\* process-passport-pdf.js handler, up to await loadingTask.promise
PdfRequest(hasFile) ==
    /\ pc = "idle"
    /\ kind' = "pdf"
    /\ IF hasFile
       THEN /\ pc' = "loading"
            /\ UNCHANGED response
       ELSE /\ pc' = "done"
            /\ response' = ErrorResponse(400, "No PDF file provided")
    /\ UNCHANGED <<files, numPages, format, chunks, i, status, attempts, chunkResults,
                   results, errors, dispatched>>
    /\ UNCHANGED nonBatchVars

\* loadingTask.promise resolves: the page count is known, the chunks are built
PdfLoaded(n) ==
    /\ pc = "loading"
    /\ numPages' = n
    /\ results' = <<>>
    /\ errors' = <<>>
    /\ chunks' = PageChunks(n)
    /\ i' = 0
    /\ pc' = "chunks"
    /\ DispatchChunk(chunks'[1],
                     [k \in 1..n |-> "pending"],
                     [k \in 1..n |-> 0],
                     "extractTextFromPdfPage")
    /\ UNCHANGED <<kind, files, format, response>>
    /\ UNCHANGED nonBatchVars

\* a parse failure that is also reported as the failure of a page
PdfLoadFailedWithPageError ==
    /\ pc = "loading"
    /\ pc' = "done"
    /\ response' = ErrorResponse(500, "PDF processing failed")
    /\ errors' = <<[ pageNumber |-> 1, error |-> "message" ]>>
    /\ UNCHANGED <<kind, files, numPages, format, chunks, i, status, attempts,
                   chunkResults, results, dispatched>>
    /\ UNCHANGED nonBatchVars

\* loadingTask.promise rejects: the outer catch answers 500
PdfLoadFailed ==
    /\ pc = "loading"
    /\ pc' = "done"
    /\ response' = ErrorResponse(500, "PDF processing failed")
    /\ UNCHANGED <<kind, files, numPages, format, chunks, i, status, attempts,
                   chunkResults, results, errors, dispatched>>
    /\ UNCHANGED nonBatchVars

Item(index) == chunks[i + 1][index]

InFlight(index, at) ==
    /\ pc = "chunks"
    /\ index \in 1..Len(chunks[i + 1])
    /\ status[Item(index)] = at

\* error.message || 'Unknown error': a non-empty text; which text it is plays no
\* part in the control flow and is not kept
ErrorMessage(error) == "message"

\* the catch block of the image closure
ImageCatch(index, error) ==
    /\ errors' = Append(errors, [ filename |-> Item(index),
                                  index    |-> FileIndex(i, index - 1),
                                  error    |-> ErrorMessage(error) ])
    /\ chunkResults' = [chunkResults EXCEPT ![index] = Null]
    /\ status' = [status EXCEPT ![Item(index)] = "caught"]
\* a failure that is not contained in its closure: it rejects Promise.all and
\* the other pages of the chunk are given up
PageCatchAbortsChunk(index, error) ==
    /\ errors' = Append(errors, [ pageNumber |-> Item(index),
                                  error      |-> ErrorMessage(error) ])
    /\ chunkResults' = [x \in DOMAIN chunkResults |-> Null]
    /\ status' = [k \in DOMAIN status |->
                     IF \E x \in 1..Len(chunks[i + 1]) : chunks[i + 1][x] = k
                     THEN "caught" ELSE status[k]]

\* the catch block of the page closure
PageCatch(index, error) ==
    /\ errors' = Append(errors, [ pageNumber |-> Item(index),
                                  error      |-> ErrorMessage(error) ])
    /\ chunkResults' = [chunkResults EXCEPT ![index] = Null]
    /\ status' = [status EXCEPT ![Item(index)] = "caught"]

batchFrame == <<pc, kind, files, numPages, format, chunks, i, attempts, results,
                dispatched, response, nonBatchVars>>

\* await processImage(file.buffer), then the size check
ImageProcessed(index, outcome) ==
    /\ InFlight(index, "processImage")
    /\ kind = "image"
    /\ IF outcome = "ok"
       THEN /\ status' = [status EXCEPT ![Item(index)] = "extractPassportData"]
            /\ UNCHANGED <<errors, chunkResults>>
       ELSE ImageCatch(index, outcome)
    /\ UNCHANGED batchFrame

\* an extraction client that throws when it could not extract
ImageExtractedThrows(index, r) ==
    /\ InFlight(index, "extractPassportData")
    /\ kind = "image"
    /\ IF r.extractedData = "empty"
       THEN ImageCatch(index, "extraction failed")
       ELSE /\ status' = [status EXCEPT ![Item(index)] = "thumbnail"]
            /\ chunkResults' = [chunkResults EXCEPT ![index] =
                                   [ isNull |-> FALSE, result |-> r ]]
            /\ UNCHANGED errors
    /\ UNCHANGED batchFrame

\* await extractPassportData(base64Image, openai): it returns, also on failure
ImageExtracted(index, r) ==
    /\ InFlight(index, "extractPassportData")
    /\ kind = "image"
    /\ status' = [status EXCEPT ![Item(index)] = "thumbnail"]
    /\ chunkResults' = [chunkResults EXCEPT ![index] =
                           [ isNull |-> FALSE, result |-> r ]]
    /\ UNCHANGED errors
    /\ UNCHANGED batchFrame

\* await sharp(processed).resize(300, 300).jpeg().toBuffer(), then the return
ImageThumbnail(index, ok) ==
    /\ InFlight(index, "thumbnail")
    /\ kind = "image"
    /\ IF ok
       THEN /\ status' = [status EXCEPT ![Item(index)] = "returned"]
            /\ chunkResults' = [chunkResults EXCEPT ![index] =
                   [ filename        |-> Item(index),
                     index           |-> FileIndex(i, index - 1),
                     data            |-> chunkResults[index].result.extractedData,
                     confidenceScore |-> chunkResults[index].result.overall_confidence ]]
            /\ UNCHANGED errors
       ELSE ImageCatch(index, "thumbnail failed")
    /\ UNCHANGED batchFrame

\* a closure that sends the page for extraction before rasterizing it
PageTextThenExtraction(index) ==
    /\ InFlight(index, "extractTextFromPdfPage")
    /\ kind = "pdf"
    /\ status' = [status EXCEPT ![Item(index)] = "extractPassportData"]
    /\ UNCHANGED <<errors, chunkResults>>
    /\ UNCHANGED batchFrame

\* await extractTextFromPdfPage(pdfDoc, pageNumber): it catches its own errors
PageTextExtracted(index) ==
    /\ InFlight(index, "extractTextFromPdfPage")
    /\ kind = "pdf"
    /\ status' = [status EXCEPT ![Item(index)] = "convertPdfPageToImage"]
    /\ UNCHANGED <<errors, chunkResults>>
    /\ UNCHANGED batchFrame

\* await convertPdfPageToImage(pdfDoc, pageNumber)
PageRasterized(index, ok) ==
    /\ InFlight(index, "convertPdfPageToImage")
    /\ kind = "pdf"
    /\ IF ok
       THEN /\ status' = [status EXCEPT ![Item(index)] = "thumbnail"]
            /\ UNCHANGED <<errors, chunkResults>>
       ELSE PageCatch(index, "rasterization failed")
    /\ UNCHANGED batchFrame

\* await sharp(image).resize(300, 300).jpeg().toBuffer()
PageThumbnail(index, ok) ==
    /\ InFlight(index, "thumbnail")
    /\ kind = "pdf"
    /\ IF ok
       THEN /\ status' = [status EXCEPT ![Item(index)] = "extractPassportData"]
            /\ UNCHANGED <<errors, chunkResults>>
       ELSE PageCatch(index, "thumbnail failed")
    /\ UNCHANGED batchFrame

\* await extractPassportData(base64Image, openai), then the return
PageExtracted(index, r) ==
    /\ InFlight(index, "extractPassportData")
    /\ kind = "pdf"
    /\ status' = [status EXCEPT ![Item(index)] = "returned"]
    /\ chunkResults' = [chunkResults EXCEPT ![index] =
           [ pageNumber      |-> Item(index),
             data            |-> r.extractedData,
             confidenceScore |-> r.overall_confidence ]]
    /\ UNCHANGED errors
    /\ UNCHANGED batchFrame

TotalItems == IF kind = "pdf" THEN numPages ELSE Len(files)

\* Promise.all resolves: results.push(...chunkResults.filter(Boolean)); then the
\* next iteration of the chunk loop, or the statistics and the response
ChunkDrained(fmt) ==
    /\ pc = "chunks"
    /\ ChunkSettled(i)
    /\ results' = results \o FilterBoolean(chunkResults)
    /\ i' = i + 1
    /\ IF i + 1 < Len(chunks)
       THEN /\ DispatchChunk(chunks[i + 2], status, attempts,
                             IF kind = "pdf" THEN "extractTextFromPdfPage"
                                             ELSE "processImage")
            /\ UNCHANGED <<pc, response>>
            /\ UNCHANGED format
       ELSE /\ UNCHANGED <<status, attempts, chunkResults, dispatched>>
            /\ format' = IF kind = "pdf" THEN fmt ELSE format
            /\ IF kind = "pdf" /\ fmt = "csv"
               THEN /\ pc' = "csv"
                    /\ UNCHANGED response
               ELSE /\ pc' = "done"
                    /\ response' = JsonResponse(TotalItems, results', errors)
    /\ UNCHANGED <<kind, files, numPages, chunks, errors>>
    /\ UNCHANGED nonBatchVars

\* await csvWriter.writeRecords(csvRecords): the CSV is sent, or the handler
\* falls back to the JSON response
CsvWritten(ok) ==
    /\ pc = "csv"
    /\ pc' = "done"
    /\ response' = IF ok THEN CsvResponse(results)
                         ELSE JsonResponse(TotalItems, results, errors)
    /\ UNCHANGED <<kind, files, numPages, format, chunks, i, status, attempts,
                   chunkResults, results, errors, dispatched>>
    /\ UNCHANGED nonBatchVars

ImageOutcomes == {"ok", "Image processing failed", "Image too large after processing"}

\* ------------------------------------------------------------------------
\* Extraction client: extractPassportData
\*   api      api/openai.js
\*   client1  client/src/lib/openai.ts, lines 6-69
\*   client2  client/src/lib/openai.ts, lines 76-124
\*   client3  client/src/lib/openai.ts, lines 130-196
\*   part006, part007, part008  the first function of unnamed/part_006..008
\* A text (an error message, a note) is a sequence of fragments, so that a
\* template literal is a concatenation.
\* ------------------------------------------------------------------------
Variants == {"api", "client1", "client2", "client3", "part006", "part007", "part008"}

\* new OpenAI({ ..., maxRetries: 3, ... })
MAX_RETRIES == 3

\* new OpenAI({ apiKey }) sets no maxRetries: the client library's default applies
DEFAULT_MAX_RETRIES == 2

\* a client that keeps re-sending beyond the configured number
ClientRetriesMore(v) == MAX_RETRIES + 2

ClientMaxRetries(v) ==
    IF v \in {"part006", "part007", "part008"} THEN MAX_RETRIES ELSE DEFAULT_MAX_RETRIES

\* the failures for which the client library re-sends the request by itself
Retryable(e) == e.status \in {408, 409, 429} \/ e.status >= 500 \/ e.name = "AbortError"

\* errors chat.completions.create rejects with (status 0: no status property)
ServiceErrors ==
    { [status |-> 429, name |-> "Error",      message |-> <<"429 Rate limit reached">>],
      [status |-> 401, name |-> "Error",      message |-> <<"401 Incorrect API key provided">>],
      [status |-> 0,   name |-> "AbortError", message |-> <<"Request was aborted.">>],
      [status |-> 500, name |-> "Error",      message |-> <<"500 Internal server error">>],
      [status |-> 400, name |-> "Error",      message |-> <<"400 Invalid JSON payload">>] }

\* error.message.includes("JSON")
IncludesJSON(msg) ==
    \E x \in 1..Len(msg) :
        msg[x] \in {"Unexpected token < in JSON at position 0", "400 Invalid JSON payload"}

NoError == [status |-> 0, name |-> "none", message |-> <<>>, origin |-> "none"]

NoOut == [none |-> TRUE]

ConfigError ==
    [status |-> 0, name |-> "Error", origin |-> "config",
     message |-> <<"The OPENAI_API_KEY environment variable is missing or empty">>]

\* if (!content) throw new Error(...)
EmptyContentError(v) ==
    [status |-> 0, name |-> "Error", origin |-> "content",
     message |-> IF v = "api" THEN <<"Empty response from OpenAI">>
                              ELSE <<"No content received from OpenAI">>]

\* what JSON.parse throws, and what the inner catch of part_006 / part_008 makes of it
ParseError(v) ==
    LET syntaxError == <<"Unexpected token < in JSON at position 0">>
    IN  IF v \in {"part006", "part008"}
        THEN [status |-> 0, name |-> "Error", origin |-> "parse",
              message |-> <<"Failed to parse OpenAI response: ">> \o syntaxError]
        ELSE [status |-> 0, name |-> "SyntaxError", origin |-> "parse",
              message |-> syntaxError]

\* a number: thousandths as the fraction num/den, or NaN
Num(n, d) == [nan |-> FALSE, num |-> n, den |-> d]
NaN == [nan |-> TRUE, num |-> 0, den |-> 1]

IdentityFields == {"fullName", "dateOfBirth", "passportNumber", "nationality",
                   "dateOfIssue", "dateOfExpiry", "placeOfBirth", "issuingAuthority"}

ScoreFields == IdentityFields \cup {"mrz"}

\* ---- what the inference service may answer ----
ScoreFieldSamples == {"fullName", "mrz"}
ScoreSamples == {0, 200, 250, 800, 1000, 1500}

ScoreMaps == UNION {[D -> ScoreSamples] : D \in SUBSET ScoreFieldSamples}

ParsedSamples ==
    { [fullName |-> "JANE DOE"] @@ sc @@ ov :
        sc \in {<<>>} \cup {[confidence_scores |-> m] : m \in ScoreMaps},
        ov \in {<<>>, [overall_confidence |-> Num(900, 1)]} }

Contents ==
    { [kind |-> "empty"], [kind |-> "text"] } \cup
    { [kind |-> "json", fenced |-> f, value |-> j] : f \in BOOLEAN, j \in ParsedSamples }

Has(obj, key) == key \in DOMAIN obj

\* parsedData.confidence_scores || {}
ScoresOrEmpty(parsedData) ==
    IF Has(parsedData, "confidence_scores") THEN parsedData.confidence_scores ELSE <<>>

RECURSIVE SumOver(_, _)
SumOver(m, D) ==
    IF D = {} THEN 0
    ELSE LET x == CHOOSE y \in D : TRUE IN m[x] + SumOver(m, D \ {x})

\* Object.values(scores).reduce((a, b) => a + b, 0)
SumValues(m) == SumOver(m, DOMAIN m)

\* Number((sum / n).toFixed(2)), in hundredths: the nearest hundredth; when the
\* quotient lies exactly halfway, the binary value of the double decides which
\* neighbour it is
ToFixed2(sum, n) ==
    LET down == sum \div (10 * n)
        rest == sum - down * 10 * n
    IN  IF 2 * rest < 10 * n THEN {down}
        ELSE IF 2 * rest > 10 * n THEN {down + 1}
        ELSE {down, down + 1}

\* api/openai.js: the overall confidence of a parsed answer
ApiOverall(parsedData) ==
    LET confidenceScores == ScoresOrEmpty(parsedData)
        n == Cardinality(DOMAIN confidenceScores)
    IN  IF n > 0 THEN ToFixed2(SumValues(confidenceScores), n) ELSE {50}

ApiSuccess(content, parsedData) ==
    { [ extractedData |-> parsedData,
        rawText |-> content,
        overall_confidence |-> Num(10 * h, 1) ] : h \in ApiOverall(parsedData) }

\* part_006 / part_008: parsedData.confidence_scores?.field ?? 0, for the nine fields
NormalizedScores(parsedData) ==
    [f \in ScoreFields |->
        IF Has(ScoresOrEmpty(parsedData), f) THEN ScoresOrEmpty(parsedData)[f] ELSE 0]

NotesOrEmpty(parsedData) ==
    IF Has(parsedData, "extraction_notes") THEN parsedData.extraction_notes ELSE <<>>

Part006Success(parsedData) ==
    [ confidence_scores |-> NormalizedScores(parsedData),
      overall_confidence |-> IF Has(parsedData, "overall_confidence")
                             THEN parsedData.overall_confidence ELSE Num(0, 1),
      extraction_notes |-> NotesOrEmpty(parsedData) ] @@ parsedData

\* part_008: parsedData.overall_confidence ?? sum / Object.keys(scores).length
Part008Overall(parsedData) ==
    LET scores == ScoresOrEmpty(parsedData)
        n == Cardinality(DOMAIN scores)
    IN  IF Has(parsedData, "overall_confidence") THEN parsedData.overall_confidence
        ELSE IF n = 0 THEN NaN
        ELSE Num(SumValues(scores), n)

\* part_008: one note per entry whose score is below 0.3
LowConfidenceNotes(parsedData) ==
    LET scores == ScoresOrEmpty(parsedData)
        low == SelectSeq(<<"fullName", "mrz">>,
                         LAMBDA f : Has(scores, f) /\ scores[f] < 300)
    IN  [x \in 1..Len(low) |-> <<"Low confidence in ", low[x], " extraction">>]

Part008Success(parsedData) ==
    [ confidence_scores |-> NormalizedScores(parsedData),
      overall_confidence |-> Part008Overall(parsedData),
      extraction_notes |-> NotesOrEmpty(parsedData) \o LowConfidenceNotes(parsedData)
    ] @@ parsedData

\* the value a call returns when the answer parses
Success(v, content) ==
    IF v = "api" THEN ApiSuccess(content, content.value)
    ELSE IF v = "part006" THEN {Part006Success(content.value)}
    ELSE IF v = "part008" THEN {Part008Success(content.value)}
    ELSE {content.value}

\* ---- the catch blocks ----
EmptyMrz == [line1 |-> "", line2 |-> ""]

ZeroScores == [f \in ScoreFields |-> 0]

\* api/openai.js, lines 66-91
ApiFailure(error) ==
    [ extractedData |->
        [ fullName |-> "", dateOfBirth |-> "", passportNumber |-> "", idNumber |-> "",
          nationality |-> "", dateOfIssue |-> "", dateOfExpiry |-> "",
          placeOfBirth |-> "", issuingAuthority |-> "", gender |-> "",
          mrz |-> EmptyMrz,
          confidence_scores |-> <<>>,
          visual_description |-> error.message ],
      rawText |-> error.message,
      overall_confidence |-> Num(0, 1) ]

\* the if / else-if chain of part_006, part_007 and part_008
Classify(error) ==
    IF error.status = 429
    THEN [ errorMessage |-> <<"API rate limit exceeded. Please try again in a few minutes.">>,
           extractionNotes |-> << <<"Rate limit reached - temporary service interruption">> >> ]
    ELSE IF error.status = 401
    THEN [ errorMessage |-> <<"Authentication error with AI service">>,
           extractionNotes |-> << <<"API authentication failed">> >> ]
    ELSE IF error.name = "AbortError"
    THEN [ errorMessage |-> <<"Request timed out. Please try again.">>,
           extractionNotes |-> << <<"Processing timeout - possible network issues">> >> ]
    ELSE IF IncludesJSON(error.message)
    THEN [ errorMessage |-> <<"Invalid response format from AI service">>,
           extractionNotes |-> << <<"Data parsing error - unexpected response format">> >> ]
    ELSE [ errorMessage |-> <<"Failed to process image">>,
           extractionNotes |-> <<>> ]

\* extraction_notes: [errorMessage, ...extractionNotes]
ClassifiedNotes(error) == <<Classify(error).errorMessage>> \o Classify(error).extractionNotes

\* extraction_notes: [`Failed to process image: ${error.message}`]
PlainNotes(error) == << <<"Failed to process image: ">> \o error.message >>

UnknownIdentity ==
    [ fullName |-> "Unknown", dateOfBirth |-> "", passportNumber |-> "",
      nationality |-> "", dateOfIssue |-> "", dateOfExpiry |-> "",
      placeOfBirth |-> "", issuingAuthority |-> "", mrz |-> EmptyMrz ]

\* part_006 / part_008: the fields lie at the top level of the object
FlatFailure(notes) ==
    UnknownIdentity @@
    [ confidence_scores |-> ZeroScores,
      overall_confidence |-> Num(0, 1),
      extraction_notes |-> notes ]

\* client/src/lib/openai.ts, part_007: the fields lie under data
NestedFailure(notes) ==
    [ data |-> UnknownIdentity,
      confidence_scores |-> ZeroScores,
      overall_confidence |-> Num(0, 1),
      extraction_notes |-> notes ]

\* throw new Error(`Failed to extract passport data: ${error.message}`)
Rethrown(error) ==
    [ status |-> 0, name |-> "Error", origin |-> error.origin,
      message |-> <<"Failed to extract passport data: ">> \o error.message ]

\* the outer catch block of each variant
OnError(v, error) ==
    IF v = "client2"
    THEN [ pc |-> "threw", out |-> NoOut, cause |-> Rethrown(error) ]
    ELSE [ pc |-> "returned", cause |-> error,
           out |-> IF v = "api" THEN ApiFailure(error)
                   ELSE IF v \in {"client1", "client3"} THEN NestedFailure(PlainNotes(error))
                   ELSE IF v = "part007" THEN NestedFailure(ClassifiedNotes(error))
                   ELSE FlatFailure(ClassifiedNotes(error)) ]

\* api/openai.js strips the markdown fence before JSON.parse; the others do not
Parses(v, content) == content.kind = "json" /\ (content.fenced => v = "api")

\* from the resolved create call to the return
OnResponse(v, content) ==
    IF content.kind = "empty" THEN {OnError(v, EmptyContentError(v))}
    ELSE IF ~Parses(v, content) THEN {OnError(v, ParseError(v))}
    ELSE {[ pc |-> "returned", out |-> r, cause |-> NoError ] : r \in Success(v, content)}

ExtractInit ==
    /\ xpc = "idle"
    /\ xvariant = "api"
    /\ xcreates = 0
    /\ xrequests = 0
    /\ xcontent = NoOut
    /\ xcause = NoError
    /\ xout = NoOut

\* the call, up to await openai.chat.completions.create(...). The module-level
\* clients need the key to load; api/openai.js builds its own client when it is
\* handed none, and that constructor throws without a key.
ExtractCall(v, openaiInstance, credentials) ==
    /\ xpc = "idle"
    /\ v # "api" => credentials /\ openaiInstance
    /\ openaiInstance => credentials
    /\ xvariant' = v
    /\ xout' = NoOut
    /\ xcontent' = NoOut
    /\ IF ~openaiInstance /\ ~credentials
       THEN /\ xpc' = "threw"
            /\ xcause' = ConfigError
            /\ UNCHANGED <<xcreates, xrequests>>
       ELSE /\ xpc' = "create"
            /\ xcause' = NoError
            /\ xcreates' = xcreates + 1
            /\ xrequests' = xrequests + 1
    /\ UNCHANGED nonExtractVars

\* the client library answers a retryable failure by sending the request again
ClientRetries(e) ==
    /\ xpc = "create"
    /\ Retryable(e)
    /\ xrequests < 1 + ClientMaxRetries(xvariant)
    /\ xrequests' = xrequests + 1
    /\ UNCHANGED <<xpc, xvariant, xcreates, xcontent, xcause, xout>>
    /\ UNCHANGED nonExtractVars

Finish(outcome) ==
    /\ xpc' = outcome.pc
    /\ xout' = outcome.out
    /\ xcause' = outcome.cause
    /\ UNCHANGED <<xvariant, xcreates, xrequests>>
    /\ UNCHANGED nonExtractVars

\* the create call rejects: the catch block runs
CreateRejects(e) ==
    /\ xpc = "create"
    /\ ~Retryable(e) \/ xrequests = 1 + ClientMaxRetries(xvariant)
    /\ Finish(OnError(xvariant, e @@ [origin |-> "create"]))
    /\ UNCHANGED xcontent

\* the create call resolves: the content is checked, parsed and returned
CreateResolves(content) ==
    /\ xpc = "create"
    /\ xcontent' = content
    /\ \E outcome \in OnResponse(xvariant, content) : Finish(outcome)

ExtractNext ==
    \/ \E v \in Variants, openaiInstance \in BOOLEAN, credentials \in BOOLEAN :
          ExtractCall(v, openaiInstance, credentials)
    \/ \E e \in ServiceErrors : ClientRetries(e)
    \/ \E e \in ServiceErrors : CreateRejects(e)
    \/ \E content \in Contents : CreateResolves(content)

\* ------------------------------------------------------------------------
\* Image normalizer: safeProcessImage (server/routes.ts, api/extract-passport.ts,
\* api/extract-passport.js) and processImage (api/batch-process-images.js)
\* ------------------------------------------------------------------------
MAX_CACHE_SIZE == 50
DimensionCeiling == 5000
CachedBox == 800
PlainBox == 1200

\* bound of the normalizer model: calls made in one run
MaxCalls == 3

\* the requests that may be inside the normalizer at the same time
Callers == {"c1", "c2"}

Sites == {"routes.ts", "extract-passport.ts", "extract-passport.js",
          "batch-process-images.js"}

\* the two TypeScript modules declare imageCache; the two JavaScript ones do not
Cached(s) == s \in {"routes.ts", "extract-passport.ts"}

\* .resize(800, 800, ..) against .resize(1200, 1200, ..)
Box(s) == IF Cached(s) THEN CachedBox ELSE PlainBox

\* withoutEnlargement: true is given by the TypeScript modules only
WithoutEnlargement(s) == Cached(s)

\* .rotate() (orientation from EXIF) is called by the TypeScript modules only
Rotates(s) == Cached(s)

\* An upload: what its bytes decode to.  digest is the md5 of the bytes, width
\* and height are what metadata() reports (0: not reported), orientation is
\* the EXIF orientation (1 upright, 6 turned a quarter), decodes / encodes say
\* whether sharp can read the input and produce the JPEG.
Buffer(d, w, h, o, dec, enc) ==
    [digest |-> d, width |-> w, height |-> h, orientation |-> o,
     decodes |-> dec, encodes |-> enc]

\* the uploads that filled the cache before the calls under study
WarmBuffer(k) == Buffer(k, 1600, 1200, 1, TRUE, TRUE)

Buffers ==
    { WarmBuffer(1),
      Buffer(51, 640, 480, 1, TRUE, TRUE),
      Buffer(52, 1000, 900, 6, TRUE, TRUE),
      Buffer(54, 5001, 100, 1, TRUE, TRUE),
      Buffer(55, 0, 0, 1, TRUE, FALSE),
      Buffer(51, 0, 0, 1, FALSE, FALSE),
      Buffer(57, 3000, 5000, 1, TRUE, FALSE),
      Buffer(51, 800, 800, 1, TRUE, TRUE) }

\* crypto.createHash('md5').update(buffer).digest('hex'): not injective
Md5(buffer) == buffer.digest

\* n / d rounded to the nearest integer
Round(n, d) == (2 * n + d) \div (2 * d)

\* the dimensions sharp works on once the orientation has been applied
Oriented(buffer, rotates) ==
    IF rotates /\ buffer.orientation = 6
    THEN [width |-> buffer.height, height |-> buffer.width]
    ELSE [width |-> buffer.width, height |-> buffer.height]

\* .resize(box, box, { fit: 'inside', withoutEnlargement })
ResizeInside(w, h, box, withoutEnlargement) ==
    IF withoutEnlargement /\ w <= box /\ h <= box
    THEN [width |-> w, height |-> h]
    ELSE IF w >= h THEN [width |-> box, height |-> Round(h * box, w)]
                   ELSE [width |-> Round(w * box, h), height |-> box]

\* { processed, metadata }: processed is the JPEG, named by its dimensions and
\* by the call that produced it (seq; 0 for an entry cached beforehand)
Normalized(buffer, s, seq) ==
    LET o == Oriented(buffer, Rotates(s))
        r == ResizeInside(o.width, o.height, Box(s), WithoutEnlargement(s))
    IN [processed |-> [width |-> r.width, height |-> r.height, by |-> seq],
        metadata |-> [width |-> buffer.width, height |-> buffer.height]]

\* a cache that k earlier, successful calls have filled, oldest entry first
Warm(s, k) ==
    [n \in 1..k |-> [hash |-> n, value |-> Normalized(WarmBuffer(n), s, 0), at |-> n]]

WarmSizes == {0, MAX_CACHE_SIZE - 1, MAX_CACHE_SIZE}

\* imageCache.has(hash) / imageCache.get(hash)
CacheHas(cache, hash) == \E n \in 1..Len(cache) : cache[n].hash = hash

CacheGet(cache, hash) ==
    cache[CHOOSE n \in 1..Len(cache) : cache[n].hash = hash].value

\* imageCache.delete(key)
CacheDelete(cache, key) == SelectSeq(cache, LAMBDA e : e.hash # key)

\* the moment of an insertion: one past the latest insertion still cached
Tick(cache) == IF cache = <<>> THEN 1 ELSE cache[Len(cache)].at + 1

\* imageCache.set(hash, value): a key already present keeps its place (and
\* the moment it was inserted at), its value is replaced
CacheSet(cache, hash, value) ==
    IF CacheHas(cache, hash)
    THEN [n \in 1..Len(cache) |->
            IF cache[n].hash = hash THEN [cache[n] EXCEPT !.value = value]
                                    ELSE cache[n]]
    ELSE Append(cache, [hash |-> hash, value |-> value, at |-> Tick(cache)])

\* variants of the eviction: one that lets the cache grow past its capacity,
\* one that takes the newest key
EvictedWhenOver(cache) ==
    IF Len(cache) > MAX_CACHE_SIZE THEN CacheDelete(cache, cache[1].hash) ELSE cache

LastKey(cache) == cache[Len(cache)].hash

\* Array.from(imageCache.keys())[0]
FirstKey(cache) == cache[1].hash

\* if (imageCache.size >= MAX_CACHE_SIZE) { ... imageCache.delete(firstKey) }
\* (firstKey is a hex digest, never falsy)
Evicted(cache) ==
    IF Len(cache) >= MAX_CACHE_SIZE THEN CacheDelete(cache, FirstKey(cache)) ELSE cache

\* a variant that inserts before the encoding has settled
SetBeforeEncoding(cache, buffer, result) ==
    CacheSet(Evicted(cache), Md5(buffer), result)

\* the cache once the awaited toBuffer() has settled: a rejection goes to
\* the catch block, which rethrows; otherwise the eviction and the set run
CacheAfterToBuffer(cache, buffer, result) ==
    IF buffer.encodes THEN CacheSet(Evicted(cache), Md5(buffer), result)
                      ELSE cache

NoBuffer == Buffer(0, 0, 0, 1, FALSE, FALSE)

IdleCall == [pc |-> "idle", buffer |-> NoBuffer, seq |-> 0, steps |-> <<>>,
             out |-> NoOut]

\* the normalizer of routes.ts with a cold cache
ImageCold ==
    /\ site = "routes.ts"
    /\ imageCache = <<>>
    /\ calls = [c \in Callers |-> IdleCall]
    /\ started = 0

\* the normalizer of any of the four modules; the cache of a TypeScript module
\* is cold, one short of full, or full
ImageInit ==
    /\ site \in Sites
    /\ imageCache \in IF Cached(site) THEN {Warm(site, k) : k \in WarmSizes}
                                      ELSE {<<>>}
    /\ calls = [c \in Callers |-> IdleCall]
    /\ started = 0

SlotFree(c) == calls[c].pc \in {"idle", "returned", "threw"}

\* throw new Error(`Image processing failed: ${error.message}`)
ImageProcessingFailed(message) == [error |-> <<"Image processing failed: ", message>>]

\* throw new Error('Image processing failed')
PlainProcessingFailed == [error |-> <<"Image processing failed">>]

Threw(c, step, error) ==
    calls' = [calls EXCEPT ![c].pc = "threw",
                           ![c].steps = calls[c].steps \o step,
                           ![c].out = error]

\* safeProcessImage(buffer), to its first await: the hash, the cache lookup,
\* and on a miss the pipeline whose metadata() is awaited
SafeProcessImage(c, buffer) ==
    /\ Cached(site)
    /\ SlotFree(c)
    /\ started < MaxCalls
    /\ started' = started + 1
    /\ LET hash == Md5(buffer) IN
         IF CacheHas(imageCache, hash)
         THEN calls' = [calls EXCEPT ![c] =
                  [pc |-> "returned", buffer |-> buffer, seq |-> started + 1,
                   steps |-> <<>>, out |-> CacheGet(imageCache, hash)]]
         ELSE calls' = [calls EXCEPT ![c] =
                  [pc |-> "metadata", buffer |-> buffer, seq |-> started + 1,
                   steps |-> <<>>, out |-> NoOut]]
    /\ UNCHANGED <<site, imageCache>>
    /\ UNCHANGED nonImageVars

\* await pipeline.metadata() settles; the dimension check; the resize and
\* the JPEG encoding are started
MetadataResolved(c) ==
    /\ Cached(site)
    /\ calls[c].pc = "metadata"
    /\ LET buffer == calls[c].buffer IN
         IF ~buffer.decodes
         THEN Threw(c, <<"metadata">>,
                    ImageProcessingFailed("Input buffer contains unsupported image format"))
         ELSE IF \/ buffer.width = 0 \/ buffer.height = 0
                 \/ buffer.width > DimensionCeiling
                 \/ buffer.height > DimensionCeiling
         THEN Threw(c, <<"metadata">>, ImageProcessingFailed("Invalid image dimensions"))
         ELSE calls' = [calls EXCEPT ![c].pc = "toBuffer",
                                     ![c].steps = <<"metadata", "toBuffer">>]
    /\ UNCHANGED <<site, imageCache, started>>
    /\ UNCHANGED nonImageVars

\* await pipeline.resize(..).jpeg(..).toBuffer() settles; the eviction and
\* the insertion follow without another await
ToBufferResolved(c) ==
    /\ Cached(site)
    /\ calls[c].pc = "toBuffer"
    /\ LET buffer == calls[c].buffer
           result == Normalized(buffer, site, calls[c].seq)
       IN /\ imageCache' = CacheAfterToBuffer(imageCache, buffer, result)
          /\ IF ~buffer.encodes
             THEN Threw(c, <<>>, ImageProcessingFailed("VipsJpeg: write failed"))
             ELSE calls' = [calls EXCEPT ![c].pc = "returned", ![c].out = result]
    /\ UNCHANGED <<site, started>>
    /\ UNCHANGED nonImageVars

\* processImage(buffer) / safeProcessImage(buffer) of the JavaScript modules,
\* to the first await: sharp(buffer).resize(..).jpeg(..).toBuffer()
ProcessImage(c, buffer) ==
    /\ ~Cached(site)
    /\ SlotFree(c)
    /\ started < MaxCalls
    /\ started' = started + 1
    /\ calls' = [calls EXCEPT ![c] =
          [pc |-> "toBuffer", buffer |-> buffer, seq |-> started + 1,
           steps |-> <<"toBuffer">>, out |-> NoOut]]
    /\ UNCHANGED <<site, imageCache>>
    /\ UNCHANGED nonImageVars

\* the toBuffer() of the JavaScript modules settles; metadata() is awaited
PlainToBufferResolved(c) ==
    /\ ~Cached(site)
    /\ calls[c].pc = "toBuffer"
    /\ IF ~calls[c].buffer.decodes \/ ~calls[c].buffer.encodes
       THEN Threw(c, <<>>, PlainProcessingFailed)
       ELSE calls' = [calls EXCEPT ![c].pc = "metadata",
                                   ![c].steps = <<"toBuffer", "metadata">>]
    /\ UNCHANGED <<site, imageCache, started>>
    /\ UNCHANGED nonImageVars

\* the metadata() of the JavaScript modules settles: return { processed, metadata }
PlainMetadataResolved(c) ==
    /\ ~Cached(site)
    /\ calls[c].pc = "metadata"
    /\ calls' = [calls EXCEPT ![c].pc = "returned",
                   ![c].out = Normalized(calls[c].buffer, site, calls[c].seq)]
    /\ UNCHANGED <<site, imageCache, started>>
    /\ UNCHANGED nonImageVars

ImageNext ==
    \/ \E c \in Callers, buffer \in Buffers : SafeProcessImage(c, buffer)
    \/ \E c \in Callers : MetadataResolved(c)
    \/ \E c \in Callers : ToBufferResolved(c)
    \/ \E c \in Callers, buffer \in Buffers : ProcessImage(c, buffer)
    \/ \E c \in Callers : PlainToBufferResolved(c)
    \/ \E c \in Callers : PlainMetadataResolved(c)

\* ------------------------------------------------------------------------
\* Validator: validatePassportData (client/src/lib/validation.ts in its two
\* versions, and the version documented in CONTRIBUTING.md)
\* ------------------------------------------------------------------------
\* A string is the sequence of its characters.
UpperLetters ==
    <<"A", "B", "C", "D", "E", "F", "G", "H", "I", "J", "K", "L", "M",
      "N", "O", "P", "Q", "R", "S", "T", "U", "V", "W", "X", "Y", "Z">>

LowerLetters ==
    <<"a", "b", "c", "d", "e", "f", "g", "h", "i", "j", "k", "l", "m",
      "n", "o", "p", "q", "r", "s", "t", "u", "v", "w", "x", "y", "z">>

DigitChars == <<"0", "1", "2", "3", "4", "5", "6", "7", "8", "9">>

Range(seq) == {seq[n] : n \in 1..Len(seq)}

IsUpper(ch) == ch \in Range(UpperLetters)

IsLower(ch) == ch \in Range(LowerLetters)

IsDigit(ch) == ch \in Range(DigitChars)

\* \s
IsSpace(ch) == ch \in {" ", "\t", "\n"}

IndexOf(seq, ch) == CHOOSE n \in 1..Len(seq) : seq[n] = ch

\* the value of a decimal digit
DigitValue(ch) == IndexOf(DigitChars, ch) - 1

\* String.prototype.toUpperCase
ToUpperCase(s) ==
    [n \in 1..Len(s) |-> IF IsLower(s[n]) THEN UpperLetters[IndexOf(LowerLetters, s[n])]
                                          ELSE s[n]]

RECURSIVE TrimStart(_)
TrimStart(s) == IF s # <<>> /\ IsSpace(Head(s)) THEN TrimStart(Tail(s)) ELSE s

RECURSIVE TrimEnd(_)
TrimEnd(s) ==
    IF s # <<>> /\ IsSpace(s[Len(s)]) THEN TrimEnd(SubSeq(s, 1, Len(s) - 1)) ELSE s

\* String.prototype.trim
Trim(s) == TrimEnd(TrimStart(s))

\* /^[A-Z0-9<]+$/
MatchesMrzCharset(s) ==
    s # <<>> /\ \A n \in 1..Len(s) : IsUpper(s[n]) \/ IsDigit(s[n]) \/ s[n] = "<"

\* /\s/
HasSpace(s) == \E n \in 1..Len(s) : IsSpace(s[n])

\* /^[\p{L} \-'.]+$/u
MatchesNameCharset(s) ==
    s # <<>> /\ \A n \in 1..Len(s) :
                  IsUpper(s[n]) \/ IsLower(s[n]) \/ s[n] \in {" ", "-", "'", "."}

\* DATE_REGEX = /^\d{4}-\d{2}-\d{2}$/
MatchesDateRegex(s) ==
    /\ Len(s) = 10
    /\ \A n \in {1, 2, 3, 4, 6, 7, 9, 10} : IsDigit(s[n])
    /\ s[5] = "-" /\ s[8] = "-"

\* PASSPORT_NUMBER_REGEX = /^[A-Z0-9]{7,9}$/
MatchesPassportNumberRegex(s) ==
    /\ Len(s) >= 7 /\ Len(s) <= 9
    /\ \A n \in 1..Len(s) : IsUpper(s[n]) \/ IsDigit(s[n])

\* A JavaScript value of a field: undefined, null, a string, or { value: string }
Undefined == [type |-> "undefined"]

JsNull == [type |-> "null"]

Str(s) == [type |-> "string", chars |-> s]

Wrapped(s) == [type |-> "object", value |-> s]

\* truthiness of a field value
Truthy(v) ==
    \/ v.type = "object"
    \/ v.type = "string" /\ v.chars # <<>>

\* A Date: its UTC calendar day as the number yyyymmdd, or InvalidDate.  A date
\* made from a date-only string is the midnight that begins the day.
InvalidDate == [valid |-> FALSE]

DateOf(y, m, d) == [valid |-> TRUE, day |-> y * 10000 + m * 100 + d]

Number2(s, n) == DigitValue(s[n]) * 10 + DigitValue(s[n + 1])

\* new Date(value): a date-only ISO string gives that day, null gives the
\* epoch, undefined, an object and any other string of the samples give an
\* invalid Date (no sample names a day its month lacks)
NewDate(v) ==
    IF v.type = "null" THEN DateOf(1970, 1, 1)
    ELSE IF v.type # "string" THEN InvalidDate
    ELSE IF ~MatchesDateRegex(v.chars) THEN InvalidDate
    ELSE LET y == Number2(v.chars, 1) * 100 + Number2(v.chars, 3)
             m == Number2(v.chars, 6)
             d == Number2(v.chars, 9)
         IN IF m >= 1 /\ m <= 12 /\ d >= 1 /\ d <= 31 THEN DateOf(y, m, d)
                                                      ELSE InvalidDate

\* getUTCFullYear() / getFullYear()
FullYear(date) == date.day \div 10000

\* date > new Date(), the clock standing at some moment after midnight of
\* the day now
After(date, now) == date.valid /\ date.day > now

\* date < new Date()
Before(date, now) == date.valid /\ date.day <= now

\* const COUNTRY_CODES = new Set([...])
COUNTRY_CODES ==
    {
      <<"A","F","G">>, <<"A","L","B">>, <<"D","Z","A">>, <<"A","S","M">>,
      <<"A","N","D">>, <<"A","G","O">>, <<"A","I","A">>, <<"A","T","A">>,
      <<"A","T","G">>, <<"A","R","G">>, <<"A","R","M">>, <<"A","B","W">>,
      <<"A","U","S">>, <<"A","U","T">>, <<"A","Z","E">>, <<"B","H","S">>,
      <<"B","H","R">>, <<"B","G","D">>, <<"B","R","B">>, <<"B","L","R">>,
      <<"B","E","L">>, <<"B","L","Z">>, <<"B","E","N">>, <<"B","M","U">>,
      <<"B","T","N">>, <<"B","O","L">>, <<"B","E","S">>, <<"B","I","H">>,
      <<"B","W","A">>, <<"B","V","T">>, <<"B","R","A">>, <<"I","O","T">>,
      <<"B","R","N">>, <<"B","G","R">>, <<"B","F","A">>, <<"B","D","I">>,
      <<"C","P","V">>, <<"K","H","M">>, <<"C","M","R">>, <<"C","A","N">>,
      <<"C","Y","M">>, <<"C","A","F">>, <<"T","C","D">>, <<"C","H","L">>,
      <<"C","H","N">>, <<"C","X","R">>, <<"C","C","K">>, <<"C","O","L">>,
      <<"C","O","M">>, <<"C","O","G">>, <<"C","O","D">>, <<"C","O","K">>,
      <<"C","R","I">>, <<"C","I","V">>, <<"H","R","V">>, <<"C","U","B">>,
      <<"C","U","W">>, <<"C","Y","P">>, <<"C","Z","E">>, <<"D","N","K">>,
      <<"D","J","I">>, <<"D","M","A">>, <<"D","O","M">>, <<"E","C","U">>,
      <<"E","G","Y">>, <<"S","L","V">>, <<"G","N","Q">>, <<"E","R","I">>,
      <<"E","S","T">>, <<"S","W","Z">>, <<"E","T","H">>, <<"F","L","K">>,
      <<"F","R","O">>, <<"F","J","I">>, <<"F","I","N">>, <<"F","R","A">>,
      <<"G","U","F">>, <<"P","Y","F">>, <<"A","T","F">>, <<"G","A","B">>,
      <<"G","M","B">>, <<"G","E","O">>, <<"D","E","U">>, <<"G","H","A">>,
      <<"G","I","B">>, <<"G","R","C">>, <<"G","R","L">>, <<"G","R","D">>,
      <<"G","L","P">>, <<"G","U","M">>, <<"G","T","M">>, <<"G","G","Y">>,
      <<"G","I","N">>, <<"G","N","B">>, <<"G","U","Y">>, <<"H","T","I">>,
      <<"H","M","D">>, <<"V","A","T">>, <<"H","N","D">>, <<"H","K","G">>,
      <<"H","U","N">>, <<"I","S","L">>, <<"I","N","D">>, <<"I","D","N">>,
      <<"I","R","N">>, <<"I","R","Q">>, <<"I","R","L">>, <<"I","M","N">>,
      <<"I","S","R">>, <<"I","T","A">>, <<"J","A","M">>, <<"J","P","N">>,
      <<"J","E","Y">>, <<"J","O","R">>, <<"K","A","Z">>, <<"K","E","N">>,
      <<"K","I","R">>, <<"P","R","K">>, <<"K","O","R">>, <<"K","W","T">>,
      <<"K","G","Z">>, <<"L","A","O">>, <<"L","V","A">>, <<"L","B","N">>,
      <<"L","S","O">>, <<"L","B","R">>, <<"L","B","Y">>, <<"L","I","E">>,
      <<"L","T","U">>, <<"L","U","X">>, <<"M","A","C">>, <<"M","D","G">>,
      <<"M","W","I">>, <<"M","Y","S">>, <<"M","D","V">>, <<"M","L","I">>,
      <<"M","L","T">>, <<"M","H","L">>, <<"M","T","Q">>, <<"M","R","T">>,
      <<"M","U","S">>, <<"M","Y","T">>, <<"M","E","X">>, <<"F","S","M">>,
      <<"M","D","A">>, <<"M","C","O">>, <<"M","N","G">>, <<"M","N","E">>,
      <<"M","S","R">>, <<"M","A","R">>, <<"M","O","Z">>, <<"M","M","R">>,
      <<"N","A","M">>, <<"N","R","U">>, <<"N","P","L">>, <<"N","L","D">>,
      <<"N","C","L">>, <<"N","Z","L">>, <<"N","I","C">>, <<"N","E","R">>,
      <<"N","G","A">>, <<"N","I","U">>, <<"N","F","K">>, <<"M","K","D">>,
      <<"M","N","P">>, <<"N","O","R">>, <<"O","M","N">>, <<"P","A","K">>,
      <<"P","L","W">>, <<"P","S","E">>, <<"P","A","N">>, <<"P","N","G">>,
      <<"P","R","Y">>, <<"P","E","R">>, <<"P","H","L">>, <<"P","C","N">>,
      <<"P","O","L">>, <<"P","R","T">>, <<"P","R","I">>, <<"Q","A","T">>,
      <<"R","E","U">>, <<"R","O","U">>, <<"R","U","S">>, <<"R","W","A">>,
      <<"B","L","M">>, <<"S","H","N">>, <<"K","N","A">>, <<"L","C","A">>,
      <<"M","A","F">>, <<"S","P","M">>, <<"V","C","T">>, <<"W","S","M">>,
      <<"S","M","R">>, <<"S","T","P">>, <<"S","A","U">>, <<"S","E","N">>,
      <<"S","R","B">>, <<"S","Y","C">>, <<"S","L","E">>, <<"S","G","P">>,
      <<"S","X","M">>, <<"S","V","K">>, <<"S","V","N">>, <<"S","L","B">>,
      <<"S","O","M">>, <<"Z","A","F">>, <<"S","G","S">>, <<"S","S","D">>,
      <<"E","S","P">>, <<"L","K","A">>, <<"S","D","N">>, <<"S","U","R">>,
      <<"S","J","M">>, <<"S","W","E">>, <<"C","H","E">>, <<"S","Y","R">>,
      <<"T","W","N">>, <<"T","J","K">>, <<"T","Z","A">>, <<"T","H","A">>,
      <<"T","L","S">>, <<"T","G","O">>, <<"T","K","L">>, <<"T","O","N">>,
      <<"T","T","O">>, <<"T","U","N">>, <<"T","U","R">>, <<"T","K","M">>,
      <<"T","C","A">>, <<"T","U","V">>, <<"U","G","A">>, <<"U","K","R">>,
      <<"A","R","E">>, <<"G","B","R">>, <<"U","S","A">>, <<"U","M","I">>,
      <<"U","R","Y">>, <<"U","Z","B">>, <<"V","U","T">>, <<"V","E","N">>,
      <<"V","N","M">>, <<"V","G","B">>, <<"V","I","R">>, <<"W","L","F">>,
      <<"E","S","H">>, <<"Y","E","M">>, <<"Z","M","B">>, <<"Z","W","E">> }

\* the fields the validators name
RequiredFields ==
    <<"fullName", "dateOfBirth", "passportNumber", "nationality", "dateOfIssue",
      "dateOfExpiry">>

\* data[field]?.toString().trim(), as the string it yields ('' when the
\* field is undefined or null, '[object Object]' for an object)
ObjectObject == <<"[", "o", "b", "j", "e", "c", "t", " ", "O", "b", "j", "e", "c", "t", "]">>

ToStringTrim(v) ==
    IF v.type = "string" THEN Trim(v.chars)
    ELSE IF v.type = "object" THEN ObjectObject
    ELSE <<>>

\* value || '' for a value that is a string, null or undefined
StringOrEmpty(v) == IF v.type = "string" THEN v.chars ELSE <<>>

\* calling a string method (trim, toUpperCase) on { value } is a TypeError
TypeError == [threw |-> "TypeError"]

\* ---- validation.ts, first version (with details) ----
NoValidation == [remarks |-> <<>>, details |-> <<>>]

DetailsHas(details, field) == \E n \in 1..Len(details) : details[n].field = field

\* variant of addValidation that records the message in details only
AddValidationDetailsOnly(acc, field, message) ==
    [acc EXCEPT !.details =
        IF DetailsHas(acc.details, field)
        THEN [n \in 1..Len(acc.details) |->
                IF acc.details[n].field = field
                THEN [acc.details[n] EXCEPT !.messages = Append(@, message)]
                ELSE acc.details[n]]
        ELSE Append(acc.details, [field |-> field, messages |-> <<message>>])]

\* addValidation(field, message): details is kept as its keys in insertion
\* order, each with its list of messages
AddValidation(acc, field, message) ==
    [remarks |-> Append(acc.remarks, field \o <<": ">> \o message),
     details |->
        IF DetailsHas(acc.details, field)
        THEN [n \in 1..Len(acc.details) |->
                IF acc.details[n].field = field
                THEN [acc.details[n] EXCEPT !.messages = Append(@, message)]
                ELSE acc.details[n]]
        ELSE Append(acc.details, [field |-> field, messages |-> <<message>>])]

AddIf(acc, cond, field, message) ==
    IF cond THEN AddValidation(acc, field, message) ELSE acc

\* 1. Passport Number Validation
ValidatePassportNumber(acc, data) ==
    LET passportNumber == Trim(StringOrEmpty(data.passportNumber)) IN
      IF passportNumber = <<>>
      THEN AddValidation(acc, <<"passportNumber">>, <<"Missing passport number">>)
      ELSE LET a == AddIf(acc, Len(passportNumber) < 8 \/ Len(passportNumber) > 9,
                          <<"passportNumber">>,
                          <<"Invalid length (", ToString(Len(passportNumber)),
                            " characters)">>)
           IN AddIf(a, ~MatchesMrzCharset(passportNumber),
                    <<"passportNumber">>, <<"Contains invalid characters">>)

\* options of validateDate; 0 stands for an option that is not given (or is
\* 0, which the code treats alike)
Options(minYear, maxYear, notFuture, notPast) ==
    [minYear |-> minYear, maxYear |-> maxYear, notFuture |-> notFuture,
     notPast |-> notPast]

\* validateDate(field, value, options): the remarks it adds
ValidateDate(acc, field, value, options, now) ==
    LET date == NewDate(value) IN
      IF ~date.valid
      THEN AddValidation(acc, <<field>>, <<"Invalid date format">>)
      ELSE LET year == FullYear(date)
               a1 == AddIf(acc, options.minYear # 0 /\ year < options.minYear, <<field>>,
                           <<"Year cannot be before ", ToString(options.minYear)>>)
               a2 == AddIf(a1, options.maxYear # 0 /\ year > options.maxYear, <<field>>,
                           <<"Year cannot be after ", ToString(options.maxYear)>>)
               a3 == AddIf(a2, options.notFuture /\ After(date, now), <<field>>,
                           <<"Cannot be in the future">>)
           IN AddIf(a3, options.notPast /\ Before(date, now), <<field>>,
                    <<"Cannot be in the past">>)

\* new Date().getUTCFullYear()
CurrentYear(now) == now \div 10000

\* 2. Date Validation, the date-specific rules and the consistency checks
ValidateDates(acc, data, now) ==
    LET dob == NewDate(data.dateOfBirth)
        doi == NewDate(data.dateOfIssue)
        doe == NewDate(data.dateOfExpiry)
        a1 == ValidateDate(acc, "dateOfBirth", data.dateOfBirth,
                           Options(1900, CurrentYear(now) - 1, TRUE, FALSE), now)
        a2 == ValidateDate(a1, "dateOfIssue", data.dateOfIssue,
                           Options(2000, 0, TRUE, FALSE), now)
        a3 == ValidateDate(a2, "dateOfExpiry", data.dateOfExpiry,
                           Options(CurrentYear(now), 0, FALSE, TRUE), now)
        a4 == AddIf(a3, doi.valid /\ doe.valid /\ doi.day > doe.day,
                    <<"dateOfIssue">>, <<"Cannot be after expiration date">>)
    IN AddIf(a4, dob.valid /\ doi.valid /\ dob.day > doi.day,
             <<"dateOfBirth">>, <<"Cannot be after issue date">>)

\* a variant of the validator without the nationality rule
NoNationalityRule(acc, data) == acc

\* 3. Nationality Validation
ValidateNationality(acc, data) ==
    LET nationality == ToUpperCase(StringOrEmpty(data.nationality)) IN
      AddIf(acc, nationality \notin COUNTRY_CODES,
            <<"nationality">>, <<"Invalid country code">>)

\* typeof score !== 'number' || score < 0 || score > 1 (scores in thousandths)
InvalidScore(score) ==
    \/ score.type # "number"
    \/ score.n < 0
    \/ score.n > 1000

\* 4. Confidence Score Validation: Object.entries(..).forEach
RECURSIVE ValidateScores(_, _)
ValidateScores(acc, entries) ==
    IF entries = <<>> THEN acc
    ELSE ValidateScores(
           AddIf(acc, InvalidScore(Head(entries).score),
                 <<"confidence_scores.", Head(entries).field>>,
                 <<"Invalid confidence score">>),
           Tail(entries))

\* 5. Field Presence Validation: requiredFields.forEach
RECURSIVE ValidatePresence(_, _, _)
ValidatePresence(acc, data, fields) ==
    IF fields = <<>> THEN acc
    ELSE ValidatePresence(
           AddIf(acc, ToStringTrim(data[Head(fields)]) = <<>>,
                 <<Head(fields)>>, <<"Required field missing">>),
           data, Tail(fields))

\* 6. Name Validation
ValidateName(acc, data) ==
    LET fullName == Trim(StringOrEmpty(data.fullName)) IN
      IF fullName = <<>> THEN acc
      ELSE LET a == AddIf(acc, ~HasSpace(fullName), <<"fullName">>,
                          <<"Missing surname/given name separator">>)
           IN AddIf(a, ~MatchesNameCharset(fullName), <<"fullName">>,
                    <<"Contains invalid characters">>)

\* validatePassportData, first version
ValidateDetailed(data, now) ==
    IF \/ data.passportNumber.type = "object"
       \/ data.nationality.type = "object"
       \/ data.fullName.type = "object"
    THEN TypeError
    ELSE LET a1 == ValidatePassportNumber(NoValidation, data)
             a2 == ValidateDates(a1, data, now)
             a3 == ValidateNationality(a2, data)
             a4 == ValidateScores(a3, data.confidence_scores)
             a5 == ValidatePresence(a4, data, RequiredFields)
             a6 == ValidateName(a5, data)
         IN [isValid |-> Len(a6.remarks) = 0, remarks |-> a6.remarks,
             details |-> a6.details]

\* ---- validation.ts, second version (remarks only) ----
PushIf(remarks, cond, remark) == IF cond THEN Append(remarks, remark) ELSE remarks

\* value.length of a field value that is truthy (undefined for an object)
LengthOver(v, n) == v.type = "string" /\ Len(v.chars) > n

\* if (data.<date>) { const d = new Date(..); if (d > now || d.getFullYear() < minYear) .. }
AppearsInvalid(v, now, minYear) ==
    /\ Truthy(v)
    /\ LET d == NewDate(v) IN d.valid /\ (After(d, now) \/ FullYear(d) < minYear)

\* !data[field] || data[field].toString().trim() === ''
Missing(v) == ~Truthy(v) \/ ToStringTrim(v) = <<>>

\* missingFields.join(', ')
RECURSIVE Join(_)
Join(names) ==
    IF names = <<>> THEN <<>>
    ELSE IF Len(names) = 1 THEN names
    ELSE <<Head(names), ", ">> \o Join(Tail(names))

\* validatePassportData, second version
ValidateSimple(data, now) ==
    LET r1 == PushIf(<<>>, LengthOver(data.passportNumber, 9),
                     <<"Passport number is unusually long (",
                       ToString(Len(StringOrEmpty(data.passportNumber))),
                       " characters)">>)
        r2 == PushIf(r1, AppearsInvalid(data.dateOfBirth, now, 1900),
                     <<"Date of birth appears invalid">>)
        r3 == PushIf(r2, AppearsInvalid(data.dateOfIssue, now, 1900),
                     <<"Date of issue appears invalid">>)
        r4 == PushIf(r3, Truthy(data.dateOfExpiry)
                           /\ Before(NewDate(data.dateOfExpiry), now),
                     <<"Passport appears to be expired">>)
        missingFields == SelectSeq(RequiredFields, LAMBDA f : Missing(data[f]))
        r5 == PushIf(r4, Len(missingFields) > 0,
                     <<"Missing required fields: ">> \o Join(missingFields))
    IN [isValid |-> Len(r5) = 0, remarks |-> r5]

\* ---- CONTRIBUTING.md: the version with a quality score ----
CONFIDENCE_THRESHOLD == 600

Scored(remarks, qualityScore) == [remarks |-> remarks, qualityScore |-> qualityScore]

Remark(acc, cond, message, penalty) ==
    IF cond THEN Scored(Append(acc.remarks, message), acc.qualityScore - penalty)
            ELSE acc

\* (score * 100).toFixed(1) of a score kept in thousandths
Percent(n) == <<ToString(n \div 10), ".", ToString(n % 10)>>

\* Object.entries(data.confidence_scores).forEach
RECURSIVE LowConfidence(_, _)
LowConfidence(acc, entries) ==
    IF entries = <<>> THEN acc
    ELSE LET e == Head(entries) IN
         LowConfidence(
           IF e.score.type = "number" /\ e.score.n < CONFIDENCE_THRESHOLD
           THEN Remark(acc, TRUE,
                       <<"Low confidence (">> \o Percent(e.score.n)
                          \o <<"%) for ", e.field>>, 10)
           ELSE acc,
           Tail(entries))

\* the date validations; nothing in the try block throws
ScoredDates(acc, data, now) ==
    LET dob == NewDate(data.dateOfBirth)
        doi == NewDate(data.dateOfIssue)
        doe == NewDate(data.dateOfExpiry)
        hasDob == Truthy(data.dateOfBirth)
        hasDoi == Truthy(data.dateOfIssue)
        a1 == Remark(acc, hasDob /\ After(dob, now),
                     <<"Date of birth is in the future">>, 15)
        a2 == Remark(a1, hasDob /\ dob.valid /\ FullYear(dob) < 1900,
                     <<"Date of birth is unrealistically old">>, 15)
        a3 == Remark(a2, hasDoi /\ After(doi, now),
                     <<"Date of issue is in the future">>, 15)
        a4 == Remark(a3, hasDoi /\ doi.valid /\ FullYear(doi) < 1900,
                     <<"Date of issue is unrealistically old">>, 15)
        a5 == Remark(a4, Truthy(data.dateOfExpiry) /\ Before(doe, now),
                     <<"Passport is expired">>, 10)
    IN Remark(a5, hasDob /\ hasDoi /\ dob.valid /\ doi.valid /\ doi.day < dob.day,
              <<"Issue date cannot be before date of birth">>, 20)

\* /^[A-Z0-9<]{44}$/
MatchesMrzLine(s) == Len(s) = 44 /\ MatchesMrzCharset(s)

\* MRZ validation; data.mrz is Undefined or an object with line1 and line2
ScoredMrz(acc, data) ==
    IF data.mrz.type # "object" THEN acc
    ELSE IF data.mrz.line1 = <<>> \/ data.mrz.line2 = <<>>
    THEN Remark(acc, TRUE, <<"Incomplete MRZ data">>, 15)
    ELSE LET a == Remark(acc, ~MatchesMrzLine(data.mrz.line1),
                         <<"Invalid MRZ line 1 format">>, 10)
         IN Remark(a, ~MatchesMrzLine(data.mrz.line2),
                   <<"Invalid MRZ line 2 format">>, 10)

\* the fields and rules of passportSchema: "min2" is z.string().min(2, ..),
\* "date" and "number" are z.string().regex(..)
PassportSchema ==
    << [field |-> "fullName", rule |-> "min2",
        message |-> "Name must be at least 2 characters"],
       [field |-> "dateOfBirth", rule |-> "date",
        message |-> "Invalid date format (YYYY-MM-DD)"],
       [field |-> "passportNumber", rule |-> "number",
        message |-> "Invalid passport number format"],
       [field |-> "nationality", rule |-> "min2",
        message |-> "Nationality must be at least 2 characters"],
       [field |-> "dateOfIssue", rule |-> "date",
        message |-> "Invalid date format (YYYY-MM-DD)"],
       [field |-> "dateOfExpiry", rule |-> "date",
        message |-> "Invalid date format (YYYY-MM-DD)"],
       [field |-> "placeOfBirth", rule |-> "min2",
        message |-> "Place of birth must be at least 2 characters"],
       [field |-> "issuingAuthority", rule |-> "min2",
        message |-> "Issuing authority must be at least 2 characters"] >>

\* the issue zod reports for one field, or <<>> when the field passes
SchemaIssue(entry, v) ==
    IF v.type = "undefined" THEN <<"Required">>
    ELSE IF v.type # "string" THEN <<"Expected string, received ", v.type>>
    ELSE IF \/ entry.rule = "min2" /\ Len(v.chars) < 2
            \/ entry.rule = "date" /\ ~MatchesDateRegex(v.chars)
            \/ entry.rule = "number" /\ ~MatchesPassportNumberRegex(v.chars)
    THEN <<entry.message>>
    ELSE <<>>

\* passportSchema.parse(..) and the catch: error.errors.forEach
RECURSIVE ScoredSchema(_, _, _)
ScoredSchema(acc, data, schema) ==
    IF schema = <<>> THEN acc
    ELSE LET entry == Head(schema)
             issue == SchemaIssue(entry, data[entry.field])
         IN ScoredSchema(
              Remark(acc, issue # <<>>, <<entry.field, ": ">> \o issue, 10),
              data, Tail(schema))

\* Math.max(0, Math.min(100, qualityScore))
Clamp(n) == IF n < 0 THEN 0 ELSE IF n > 100 THEN 100 ELSE n

\* validatePassportData as documented in CONTRIBUTING.md
ValidateScored(data, now) ==
    LET a1 == LowConfidence(Scored(<<>>, 100), data.confidence_scores)
        a2 == ScoredDates(a1, data, now)
        a3 == ScoredMrz(a2, data)
        a4 == ScoredSchema(a3, data, PassportSchema)
    IN [isValid |-> Len(a4.remarks) = 0, remarks |-> a4.remarks,
        qualityScore |-> Clamp(a4.qualityScore)]

\* ---- the inputs ----
\* a passport every version accepts on the day the clock starts at
BasePassport ==
    [fullName |-> Str(<<"J", "O", "H", "N", " ", "D", "O", "E">>),
     dateOfBirth |-> Str(<<"1", "9", "9", "0", "-", "0", "5", "-", "1", "7">>),
     passportNumber |-> Str(<<"A", "B", "1", "2", "3", "4", "5", "6", "7">>),
     nationality |-> Str(<<"U", "S", "A">>),
     dateOfIssue |-> Str(<<"2", "0", "2", "1", "-", "0", "6", "-", "0", "1">>),
     dateOfExpiry |-> Str(<<"2", "0", "3", "1", "-", "0", "6", "-", "0", "1">>),
     placeOfBirth |-> Str(<<"N", "E", "W", " ", "Y", "O", "R", "K">>),
     issuingAuthority |-> Str(<<"U", "S", "D", "S">>),
     mrz |-> Undefined,
     confidence_scores |-> <<>>]

\* a score: a number (in thousandths), or a string that is no number
Score(n) == [type |-> "number", n |-> n]

NotANumber == [type |-> "string"]

MrzLines(line1, line2) == [type |-> "object", line1 |-> line1, line2 |-> line2]

MrzLine == [n \in 1..44 |-> "<"]

\* the values each field is tried with, besides the one of BasePassport
FieldSamples ==
    [fullName |->
      { Undefined,
      Str(<<>>),
      Str(<<" ", " ">>),
      Str(<<"X", "1">>),
      Wrapped(<<"J", "O", "H", "N", " ", "D", "O", "E">>),
      Wrapped(<<>>) },
     dateOfBirth |->
      { Undefined,
      JsNull,
      Str(<<>>),
      Str(<<"u", "n", "k", "n", "o", "w", "n">>),
      Str(<<"2", "0", "2", "5", "-", "0", "1", "-", "0", "1">>),
      Str(<<"1", "8", "9", "0", "-", "0", "2", "-", "0", "3">>),
      Wrapped(<<"1", "9", "9", "0", "-", "0", "5", "-", "1", "7">>),
      Wrapped(<<>>) },
     passportNumber |->
      { Undefined,
      Str(<<>>),
      Str(<<"a", "b", "1", "2", " ">>),
      Str(<<"A", "1", "2", "3", "4", "5", "6", "7", "8", "9">>),
      Wrapped(<<"A", "B", "1", "2", "3", "4", "5", "6", "7">>),
      Wrapped(<<>>) },
     nationality |->
      { JsNull,
      Str(<<>>),
      Str(<<"u", "s", "a">>),
      Str(<<"Z", "Z", "Z">>),
      Wrapped(<<"U", "S", "A">>),
      Wrapped(<<>>) },
     dateOfIssue |->
      { Undefined,
      Str(<<" ", " ">>),
      Str(<<"2", "0", "2", "0", "-", "0", "1", "-", "0", "1">>),
      Str(<<"1", "9", "9", "9", "-", "0", "3", "-", "0", "3">>),
      Str(<<"2", "0", "3", "1", "-", "0", "1", "-", "0", "1">>),
      Wrapped(<<"2", "0", "2", "1", "-", "0", "6", "-", "0", "1">>) },
     dateOfExpiry |->
      { Undefined,
      Str(<<"2", "0", "2", "6", "-", "1", "1", "-", "2", "0">>),
      Str(<<"2", "0", "1", "9", "-", "0", "1", "-", "0", "1">>),
      Wrapped(<<>>) },
     mrz |->
      { MrzLines(<<>>, <<>>), MrzLines(<<"P", "<">>, MrzLine),
        MrzLines(MrzLine, MrzLine) },
     confidence_scores |->
      { <<[field |-> "fullName", score |-> Score(900)]>>,
        <<[field |-> "fullName", score |-> Score(300)]>>,
        <<[field |-> "fullName", score |-> Score(1500)]>>,
        <<[field |-> "mrz", score |-> NotANumber]>> }]

\* data with one field given another of its values
Changed(data) ==
    UNION {{[data EXCEPT ![f] = v] : v \in FieldSamples[f]} : f \in DOMAIN FieldSamples}

\* BasePassport with at most two fields given another value
Passports ==
    {BasePassport} \cup Changed(BasePassport)
       \cup UNION {Changed(data) : data \in Changed(BasePassport)}

\* the versions of validatePassportData
Validators == {"detailed", "simple", "scored"}

\* the days the clock is read on
Days == {20261105, 20261201, 20270102}

\* bound of the validator model: calls made on one extraction result
MaxValidations == 2

NoPassport == [none |-> TRUE]

\* validatePassportData(data) of the given version, called on the day now
ValidatePassportData(v, data, now) ==
    IF v = "detailed" THEN ValidateDetailed(data, now)
    ELSE IF v = "simple" THEN ValidateSimple(data, now)
    ELSE ValidateScored(data, now)

ValidateInit ==
    /\ passport = NoPassport
    /\ validator = "none"
    /\ clock = 20261105
    /\ validations = <<>>

\* an extraction result arrives at the page that validates it
DataExtracted(data, v) ==
    /\ passport = NoPassport
    /\ passport' = data
    /\ validator' = v
    /\ UNCHANGED <<clock, validations>>
    /\ UNCHANGED nonValidateVars

\* time passes
ClockAdvances(day) ==
    /\ day > clock
    /\ clock' = day
    /\ UNCHANGED <<passport, validator, validations>>
    /\ UNCHANGED nonValidateVars

\* a variant of the clock reading that keeps the day of the first call
FirstReading == IF validations = <<>> THEN clock ELSE validations[1].at

\* new Date(), read inside the call
NewDateNow == clock

\* const { isValid, remarks } = validatePassportData(passport)
Validate ==
    /\ passport # NoPassport
    /\ Len(validations) < MaxValidations
    /\ validations' = Append(validations,
          [at |-> clock, argument |-> passport,
           out |-> ValidatePassportData(validator, passport, NewDateNow)])
    /\ UNCHANGED <<passport, validator, clock>>
    /\ UNCHANGED nonValidateVars

ValidateNext ==
    \/ \E data \in Passports, v \in Validators : DataExtracted(data, v)
    \/ \E day \in Days : ClockAdvances(day)
    \/ Validate

\* ------------------------------------------------------------------------
\* Routes for a single upload
\*   index.js                 POST /api/extract-passport of the Express entry
\*                            point (api/extract-passport.ts, lines 145-319)
\*   routes.ts                POST /api/extract-pdf-passport with
\*                            processPdfPassport of server/routes.ts, line 416
\*   extract-pdf-passport.ts  the handler of api/extract-pdf-passport.ts
\* effects lists what the request did, in order: upload (multer read the
\* body), normalize, thumbnail, text (of a page), inference (a request to
\* the model), failed (console.error for a page), aborted (console.error for
\* the document).
\* ------------------------------------------------------------------------
PdfModules == {"routes.ts", "extract-pdf-passport.ts"}

Effect(what, page) == [what |-> what, page |-> page]

RouteInit ==
    /\ route = "none"
    /\ served = "none"
    /\ apiKey = TRUE
    /\ nodeEnv = "production"
    /\ rpc = "idle"
    /\ pageCount = 0
    /\ pageNum = 0
    /\ sections = 0
    /\ extractedData = <<>>
    /\ effects = <<>>
    /\ reply = NoResponse

\* res.status(code).json({ error })
Replied(body) == rpc' = "done" /\ reply' = body

\* apiKey || 'dummy-key-for-development': the client is built with or
\* without the key and the server starts either way
ServerStarts(key) == TRUE

\* upload.single("image") has read the body; the handler runs to
\* await safeProcessImage(req.file.buffer)
ExtractPassportRequest(key, env, hasFile) ==
    /\ rpc = "idle"
    /\ ServerStarts(key)
    /\ route' = "extract-passport"
    /\ served' = "index.js"
    /\ apiKey' = key
    /\ nodeEnv' = env
    /\ effects' = <<Effect("upload", 0)>>
    /\ IF hasFile
       THEN rpc' = "safeProcessImage" /\ UNCHANGED reply
       ELSE Replied(ErrorResponse(400, "No image provided"))
    /\ UNCHANGED <<pageCount, pageNum, sections, extractedData>>
    /\ UNCHANGED nonRouteVars

\* await safeProcessImage(..) settles, then the size check
RouteImageProcessed(outcome) ==
    /\ rpc = "safeProcessImage"
    /\ effects' = Append(effects, Effect("normalize", 0))
    /\ IF outcome = "ok"
       THEN rpc' = "thumbnail" /\ UNCHANGED reply
       ELSE IF outcome = "Image too large after processing"
       THEN Replied(ErrorResponse(413, outcome))
       ELSE Replied(ErrorResponse(500, outcome))
    /\ UNCHANGED <<route, served, apiKey, nodeEnv, pageCount, pageNum, sections,
                   extractedData>>
    /\ UNCHANGED nonRouteVars

\* res.json({ thumbnail, data, rawText })
DataReply(data) == [status |-> 200, type |-> "json", data |-> data]

\* the thumbnail settles; without a key in development the placeholder is
\* sent, otherwise extractPassportData(base64Image, openai) sends the request
RouteThumbnail(ok) ==
    /\ rpc = "thumbnail"
    /\ IF ~ok
       THEN /\ Replied(ErrorResponse(500, "thumbnail failed"))
            /\ effects' = Append(effects, Effect("thumbnail", 0))
       ELSE IF ~apiKey /\ nodeEnv = "development"
       THEN /\ Replied(DataReply("placeholder"))
            /\ effects' = Append(effects, Effect("thumbnail", 0))
       ELSE /\ rpc' = "extractPassportData"
            /\ effects' = effects \o <<Effect("thumbnail", 0), Effect("inference", 0)>>
            /\ UNCHANGED reply
    /\ UNCHANGED <<route, served, apiKey, nodeEnv, pageCount, pageNum, sections,
                   extractedData>>
    /\ UNCHANGED nonRouteVars

\* await extractPassportData(..) of api/openai.js: it returns, also when the
\* request was rejected, as it is with the dummy key
RouteExtracted(r) ==
    /\ rpc = "extractPassportData"
    /\ ~apiKey => r.extractedData = "empty"
    /\ Replied(DataReply(r.extractedData))
    /\ UNCHANGED <<route, served, apiKey, nodeEnv, pageCount, pageNum, sections,
                   extractedData, effects>>
    /\ UNCHANGED nonRouteVars

\* upload.single("pdf") has read the body; processPdfPassport runs to
\* await loadingTask.promise
PdfRouteRequest(m, isPdf) ==
    /\ rpc = "idle"
    /\ route' = "extract-pdf-passport"
    /\ served' = m
    /\ effects' = <<Effect("upload", 0)>>
    /\ IF isPdf
       THEN rpc' = "loading" /\ UNCHANGED reply
       ELSE Replied(ErrorResponse(400, "Valid PDF file required"))
    /\ UNCHANGED <<apiKey, nodeEnv, pageCount, pageNum, sections, extractedData>>
    /\ UNCHANGED nonRouteVars

\* the catch of processPdfPassport rethrows and the catch of the handler
\* answers 500
DocumentFails(page) ==
    /\ Replied(ErrorResponse(500, "PDF processing failed"))
    /\ effects' = Append(effects, Effect("aborted", page))

\* loadingTask.promise rejects
DocumentRejected ==
    /\ rpc = "loading"
    /\ DocumentFails(0)
    /\ UNCHANGED <<route, served, apiKey, nodeEnv, pageCount, pageNum, sections,
                   extractedData>>
    /\ UNCHANGED nonRouteVars

\* loadingTask.promise resolves; the page loop runs to its first await
DocumentLoaded(n) ==
    /\ rpc = "loading"
    /\ pageCount' = n
    /\ pageNum' = 1
    /\ rpc' = IF n = 0 THEN "writeRecords" ELSE "getTextContent"
    /\ UNCHANGED <<route, served, apiKey, nodeEnv, sections, extractedData,
                   effects, reply>>
    /\ UNCHANGED nonRouteVars

\* the end of an iteration of the page loop
NextPage ==
    /\ pageNum' = pageNum + 1
    /\ sections' = 0
    /\ rpc' = IF pageNum < pageCount THEN "getTextContent" ELSE "writeRecords"
    /\ UNCHANGED reply

\* a page failure that ends the loop: the error leaves processPdfPassport
PageFailureAborts(what) ==
    /\ DocumentFails(pageNum)
    /\ UNCHANGED <<pageNum, sections>>

\* catch (pageError) { console.error(..) } inside the loop of routes.ts
PageFailureCaught(what) ==
    /\ effects' = Append(effects, Effect("failed", pageNum))
    /\ NextPage

\* the page loop of api/extract-pdf-passport.ts has no try of its own
PageFailure(what) ==
    IF served = "routes.ts" THEN PageFailureCaught(what) ELSE PageFailureAborts(what)

\* getPage and getTextContent settle.  routes.ts splits the text into
\* sections and sends those that look like passport data (s of them), the
\* other module sends the text of the page as one request
PageText(ok, s) ==
    /\ rpc = "getTextContent"
    /\ served # "routes.ts" => s = 1
    /\ IF ~ok
       THEN PageFailure("text")
       ELSE IF s = 0
       THEN /\ effects' = Append(effects, Effect("text", pageNum))
            /\ NextPage
       ELSE /\ effects' = effects \o <<Effect("text", pageNum),
                                       Effect("inference", pageNum)>>
            /\ sections' = s
            /\ rpc' = "create"
            /\ UNCHANGED <<pageNum, reply>>
    /\ UNCHANGED <<route, served, apiKey, nodeEnv, pageCount, extractedData>>
    /\ UNCHANGED nonRouteVars

\* the next section of the page, or the next page
NextSection ==
    IF sections > 1
    THEN /\ sections' = sections - 1
         /\ effects' = Append(effects, Effect("inference", pageNum))
         /\ UNCHANGED <<rpc, pageNum, reply>>
    ELSE /\ NextPage
         /\ UNCHANGED effects

PageInferenceOutcomes == {"parsed", "no content", "not JSON", "rejected"}

\* await openai.chat.completions.create(..) settles.  JSON.parse has a try
\* of its own in api/extract-pdf-passport.ts, none in routes.ts
PageInferred(outcome) ==
    /\ rpc = "create"
    /\ IF outcome = "parsed"
       THEN /\ extractedData' = Append(extractedData, pageNum)
            /\ NextSection
       ELSE IF outcome = "no content"
       THEN /\ NextSection
            /\ UNCHANGED extractedData
       ELSE IF outcome = "not JSON" /\ served # "routes.ts"
       THEN /\ effects' = Append(effects, Effect("failed", pageNum))
            /\ NextPage
            /\ UNCHANGED extractedData
       ELSE /\ PageFailure(outcome)
            /\ UNCHANGED extractedData
    /\ UNCHANGED <<route, served, apiKey, nodeEnv, pageCount>>
    /\ UNCHANGED nonRouteVars

\* res.json({ success: true, count, data, .. })
DocumentReply(data) ==
    [status |-> 200, type |-> "json", count |-> Len(data), data |-> data]

\* await csvWriter.writeRecords(extractedData) settles
RecordsWritten(ok) ==
    /\ rpc = "writeRecords"
    /\ IF ok THEN Replied(DocumentReply(extractedData))
             ELSE Replied(ErrorResponse(500, "PDF processing failed"))
    /\ UNCHANGED <<route, served, apiKey, nodeEnv, pageCount, pageNum, sections,
                   extractedData, effects>>
    /\ UNCHANGED nonRouteVars

RouteNext ==
    \/ \E key \in BOOLEAN, env \in {"production", "development"}, hasFile \in BOOLEAN :
          ExtractPassportRequest(key, env, hasFile)
    \/ \E outcome \in ImageOutcomes : RouteImageProcessed(outcome)
    \/ \E ok \in BOOLEAN : RouteThumbnail(ok)
    \/ \E r \in BatchExtractOutcomes : RouteExtracted(r)
    \/ \E m \in PdfModules, isPdf \in BOOLEAN : PdfRouteRequest(m, isPdf)
    \/ DocumentRejected
    \/ \E n \in 0..MaxDocPages : DocumentLoaded(n)
    \/ \E ok \in BOOLEAN, s \in 0..MaxSections : PageText(ok, s)
    \/ \E outcome \in PageInferenceOutcomes : PageInferred(outcome)
    \/ \E ok \in BOOLEAN : RecordsWritten(ok)

Init == BatchInit /\ ExtractInit /\ ImageCold /\ ValidateInit /\ RouteInit

BatchNext ==
    \/ \E n \in 0..MaxFiles : ImageRequest(n)
    \/ \E hasFile \in BOOLEAN : PdfRequest(hasFile)
    \/ \E n \in 1..MaxPages : PdfLoaded(n)
    \/ PdfLoadFailed
    \/ \E index \in 1..IMAGE_MAX_CONCURRENT, outcome \in ImageOutcomes :
          ImageProcessed(index, outcome)
    \/ \E index \in 1..IMAGE_MAX_CONCURRENT, r \in BatchExtractOutcomes :
          ImageExtracted(index, r)
    \/ \E index \in 1..IMAGE_MAX_CONCURRENT, ok \in BOOLEAN : ImageThumbnail(index, ok)
    \/ \E index \in 1..PDF_MAX_CONCURRENT : PageTextExtracted(index)
    \/ \E index \in 1..PDF_MAX_CONCURRENT, ok \in BOOLEAN : PageRasterized(index, ok)
    \/ \E index \in 1..PDF_MAX_CONCURRENT, ok \in BOOLEAN : PageThumbnail(index, ok)
    \/ \E index \in 1..PDF_MAX_CONCURRENT, r \in BatchExtractOutcomes :
          PageExtracted(index, r)
    \/ \E fmt \in {"json", "csv"} : ChunkDrained(fmt)
    \/ \E ok \in BOOLEAN : CsvWritten(ok)

Next == BatchNext

Spec == Init /\ [][Next]_vars

\* an awaited operation of an item in flight settles
ItemSettles ==
    \/ \E index \in 1..IMAGE_MAX_CONCURRENT, outcome \in ImageOutcomes :
          ImageProcessed(index, outcome)
    \/ \E index \in 1..IMAGE_MAX_CONCURRENT, r \in BatchExtractOutcomes :
          ImageExtracted(index, r)
    \/ \E index \in 1..IMAGE_MAX_CONCURRENT, ok \in BOOLEAN : ImageThumbnail(index, ok)
    \/ \E index \in 1..PDF_MAX_CONCURRENT : PageTextExtracted(index)
    \/ \E index \in 1..PDF_MAX_CONCURRENT, ok \in BOOLEAN : PageRasterized(index, ok)
    \/ \E index \in 1..PDF_MAX_CONCURRENT, ok \in BOOLEAN : PageThumbnail(index, ok)
    \/ \E index \in 1..PDF_MAX_CONCURRENT, r \in BatchExtractOutcomes :
          PageExtracted(index, r)

\* the handler resumes after an await of its own: Promise.all of a chunk, or
\* the writing of the CSV
HandlerResumes ==
    \/ \E fmt \in {"json", "csv"} : ChunkDrained(fmt)
    \/ \E ok \in BOOLEAN : CsvWritten(ok)

\* the batch handlers on requests of at most two chunks
NextLive ==
    \/ \E n \in 0..MaxLiveFiles : ImageRequest(n)
    \/ \E hasFile \in BOOLEAN : PdfRequest(hasFile)
    \/ \E n \in 1..MaxLivePages : PdfLoaded(n)
    \/ PdfLoadFailed
    \/ \E index \in 1..IMAGE_MAX_CONCURRENT, outcome \in ImageOutcomes :
          ImageProcessed(index, outcome)
    \/ \E index \in 1..IMAGE_MAX_CONCURRENT, r \in BatchExtractOutcomes :
          ImageExtracted(index, r)
    \/ \E index \in 1..IMAGE_MAX_CONCURRENT, ok \in BOOLEAN : ImageThumbnail(index, ok)
    \/ \E index \in 1..PDF_MAX_CONCURRENT : PageTextExtracted(index)
    \/ \E index \in 1..PDF_MAX_CONCURRENT, ok \in BOOLEAN : PageRasterized(index, ok)
    \/ \E index \in 1..PDF_MAX_CONCURRENT, ok \in BOOLEAN : PageThumbnail(index, ok)
    \/ \E index \in 1..PDF_MAX_CONCURRENT, r \in BatchExtractOutcomes :
          PageExtracted(index, r)
    \/ \E fmt \in {"json", "csv"} : ChunkDrained(fmt)
    \/ \E ok \in BOOLEAN : CsvWritten(ok)

\* every awaited operation settles in the end, and the event loop runs every
\* continuation that is ready
SpecLive == Init /\ [][NextLive]_vars /\ WF_vars(ItemSettles) /\ WF_vars(HandlerResumes)

\* one call of the extraction client, the batch handlers at rest
NextExtract == ExtractNext

SpecExtract == Init /\ [][NextExtract]_vars

\* the normalizer on its own, from any of its modules and cache fillings
InitImage == BatchInit /\ ExtractInit /\ ImageInit /\ ValidateInit /\ RouteInit

NextImage == ImageNext

SpecImage == InitImage /\ [][NextImage]_vars

\* the validator on its own
NextValidate == ValidateNext

SpecValidate == Init /\ [][NextValidate]_vars

\* one request to a route for a single upload
NextRoute == RouteNext

SpecRoute == Init /\ [][NextRoute]_vars

\* ------------------------------------------------------------------------
\* Batch orchestrator: properties
\* ------------------------------------------------------------------------
Ceil(n, c) == (n + c - 1) \div c

\* the chunk loop has been left
ChunkLoopOver == pc \in {"csv", "done"} /\ Len(chunks) > 0

Items == DOMAIN status

InFlightItems == {k \in Items : status[k] \notin {"pending", "returned", "caught"}}

\* the chunk (0-based) the chunk list puts item k in
ChunkOf(k) == CHOOSE ci \in 0..(Len(chunks) - 1) :
                  \E index \in 1..Len(chunks[ci + 1]) : chunks[ci + 1][index] = k

\* the key an errors entry names its item by
ErrorKey(e) == IF kind = "pdf" THEN e.pageNumber ELSE e.index

ErrorsFor(k) == {x \in 1..Len(errors) : ErrorKey(errors[x]) = k}

ResultKey(r) == IF kind = "pdf" THEN r.pageNumber ELSE r.index

JsonOk == pc = "done" /\ response.status = 200 /\ response.type = "json"

\* C1: a batch run over N items with chunk size C makes exactly ceil(N/C) chunk
\* dispatches (never more while it runs), and once the chunk loop is over
\* length(results) + length(errors) = N, which the summary of the JSON response
\* repeats as successfullyProcessed + errors = total, whatever items failed.
C1_ChunkDispatchesAndTotals ==
    /\ pc = "chunks" => dispatched = i + 1 /\ dispatched <= Ceil(TotalItems, MAX_CONCURRENT)
    /\ ChunkLoopOver =>
          /\ dispatched = Ceil(TotalItems, MAX_CONCURRENT)
          /\ Len(results) + Len(errors) = TotalItems
    /\ JsonOk =>
          /\ response.summary.total = TotalItems
          /\ response.summary.successfullyProcessed + response.summary.errors
                = response.summary.total

C1_Witness ==
    /\ JsonOk
    /\ kind = "pdf"
    /\ numPages = 7
    /\ dispatched = 3
    /\ Len(errors) = 2
    /\ Len(results) = 5

\* C2: at every moment all items in flight belong to the chunk the loop is at,
\* at most MAX_CONCURRENT of them are in flight, and an item is started only
\* when every item of every earlier chunk has settled.
C2_OneChunkInFlight ==
    /\ pc # "chunks" => InFlightItems = {}
    /\ \A k \in InFlightItems : ChunkOf(k) = i
    /\ Cardinality(InFlightItems) <= MAX_CONCURRENT
    /\ \A k \in Items : status[k] # "pending" =>
          \A j \in Items : ChunkOf(j) < ChunkOf(k) => Settled(status[j])

C2_Witness ==
    /\ pc = "chunks"
    /\ kind = "image"
    /\ Len(files) = 6
    /\ i = 0
    /\ Cardinality(InFlightItems) = 5
    /\ status[5] = "pending"

\* C3: a step in which an item fails changes no other item and does not end
\* the run, and when the chunk loop is over every item has been started once
\* and has reached its own outcome, whatever items failed.
C3_FailureStep ==
    \A k \in Items :
        (status[k] # "caught" /\ k \in DOMAIN status' /\ status'[k] = "caught") =>
            /\ pc' = "chunks"
            /\ DOMAIN status' = DOMAIN status
            /\ \A j \in Items \ {k} : status'[j] = status[j]
            /\ attempts' = attempts

C3_AllRan ==
    ChunkLoopOver => \A k \in Items : Settled(status[k]) /\ attempts[k] = 1

C3_FailureNeverAbortsSiblings == [][C3_FailureStep /\ C3_AllRan']_vars

\* a whole first chunk has failed and a page of the next chunk succeeded
C3_Witness ==
    /\ kind = "pdf"
    /\ numPages = 5
    /\ \A k \in 1..3 : status[k] = "caught"
    /\ status[4] = "returned"
    /\ status[5] = "caught"
    /\ pc = "done"

\* C4: every item is attempted at most once while the run lasts and exactly
\* once when it is over; an item has one errors entry, under its original
\* position, exactly when it failed, and none otherwise.
C4_AttemptedOnceKeyedByPosition ==
    /\ \A k \in Items :
          /\ attempts[k] <= 1
          /\ attempts[k] = 0 <=> status[k] = "pending"
          /\ Cardinality(ErrorsFor(k)) = IF status[k] = "caught" THEN 1 ELSE 0
    /\ \A x \in 1..Len(errors) :
          /\ ErrorKey(errors[x]) \in Items
          /\ kind = "image" => errors[x].index = errors[x].filename
    /\ ChunkLoopOver => \A k \in Items : attempts[k] = 1

\* the scenario of the 12-page document, at the model's bound: 7 pages in 3
\* chunks, page 4 fails, pages 5 to 7 are processed all the same
C4_Witness ==
    /\ JsonOk
    /\ kind = "pdf"
    /\ numPages = 7
    /\ dispatched = 3
    /\ Len(errors) = 1
    /\ errors[1].pageNumber = 4
    /\ Len(results) = 6
    /\ \A k \in 5..7 : \E x \in 1..Len(results) : results[x].pageNumber = k

\* C5 as stated: every batch JSON response carries both a results list and an
\* errors list, also when one of the two is empty.
C5_Original ==
    JsonOk => "results" \in DOMAIN response /\ "errors" \in DOMAIN response

\* C5 as amended: every batch JSON response carries the results list, empty
\* when nothing succeeded; it carries the errors list exactly when at least
\* one item failed, and then the list is the non-empty list of the failures;
\* summary.errors gives the number of failures in both cases.
C5_ErrorsOnlyWhenNonEmpty ==
    JsonOk =>
        /\ "results" \in DOMAIN response
        /\ response.results = results
        /\ "errors" \in DOMAIN response <=> Len(errors) > 0
        /\ "errors" \in DOMAIN response => response.errors = errors
        /\ response.summary.errors = Len(errors)

C5_Witness ==
    /\ JsonOk
    /\ kind = "image"
    /\ Len(files) = 6
    /\ Len(results) = 6
    /\ "errors" \notin DOMAIN response

\* ------------------------------------------------------------------------
\* Extraction client: properties
\* ------------------------------------------------------------------------
ExtractFailed == xpc = "returned" /\ xcause # NoError

ExtractSucceeded == xpc = "returned" /\ xcause = NoError

\* where a returned object keeps the identity fields
DataOf(v, out) ==
    IF v = "api" THEN out.extractedData
    ELSE IF v \in {"client1", "client3", "part007"} THEN out.data
    ELSE out

ScoresOf(v, out) ==
    IF v = "api" THEN out.extractedData.confidence_scores ELSE out.confidence_scores

HasNotes(out) == Has(out, "extraction_notes") /\ Len(out.extraction_notes) > 0

InNotes(out, note) == \E x \in 1..Len(out.extraction_notes) : out.extraction_notes[x] = note

RateLimitNotes == { <<"API rate limit exceeded. Please try again in a few minutes.">>,
                    <<"Rate limit reached - temporary service interruption">> }
AuthNotes == { <<"Authentication error with AI service">>, <<"API authentication failed">> }
TimeoutNotes == { <<"Request timed out. Please try again.">>,
                  <<"Processing timeout - possible network issues">> }
FormatNotes == { <<"Invalid response format from AI service">>,
                 <<"Data parsing error - unexpected response format">> }

ClassNotes == {RateLimitNotes, AuthNotes, TimeoutNotes, FormatNotes}

\* the notes are those of class c and of no other class
OnlyClass(out, c) ==
    /\ \A note \in c : InNotes(out, note)
    /\ \A other \in ClassNotes \ {c} : \A note \in other : ~InNotes(out, note)

\* C6 as stated: extractPassportData lets no exception through when the
\* inference call fails, the content is empty or the text is no JSON; only a
\* configuration error (missing credentials) propagates.
C6_Original == xpc = "threw" => xcause.origin = "config"

\* C7 as stated: when the inference call throws, the returned object has every
\* identity field "", both mrz lines empty, every confidence score 0,
\* overall_confidence 0 and a non-empty extraction_notes list.
C7_Original ==
    (xpc = "returned" /\ xcause.origin = "create") =>
        /\ \A f \in IdentityFields : DataOf(xvariant, xout)[f] = ""
        /\ DataOf(xvariant, xout).mrz = EmptyMrz
        /\ \A f \in DOMAIN ScoresOf(xvariant, xout) : ScoresOf(xvariant, xout)[f] = 0
        /\ xout.overall_confidence = Num(0, 1)
        /\ HasNotes(xout)

\* C8 as stated: a failed call carries the note of its class and of no other
\* class: status 429 the rate-limit note, status 401 the authentication note,
\* AbortError the timeout note, a JSON-shape failure the invalid-format note.
C8_Classified ==
    /\ HasNotes(xout)
    /\ xcause.status = 429 => OnlyClass(xout, RateLimitNotes)
    /\ xcause.status = 401 => OnlyClass(xout, AuthNotes)
    /\ xcause.name = "AbortError" => OnlyClass(xout, TimeoutNotes)
    /\ xcause.origin = "parse" => OnlyClass(xout, FormatNotes)

C8_Original ==
    (ExtractFailed /\ xvariant \in {"api", "part006", "part007"}) => C8_Classified

Abs(x) == IF x < 0 THEN -x ELSE x

\* the value v (a fraction of thousandths) is the mean sum/n rounded to 2 decimals
IsMeanRoundedTo2(v, sum, n) ==
    \E h \in 0..200 : v.num = 10 * h * v.den /\ Abs(10 * h * n - sum) <= 5 * n

\* C10 as stated: on a successful call overall_confidence is the mean of the
\* confidence_scores values rounded to 2 decimals, 0.5 when confidence_scores
\* is absent or empty, and within [0,1] when every score is.
C10_Original ==
    (ExtractSucceeded /\ xvariant \in {"api", "part008"}) =>
        LET scores == ScoresOrEmpty(xcontent.value)
            n == Cardinality(DOMAIN scores)
            overall == xout.overall_confidence
        IN  /\ ~overall.nan
            /\ n > 0 => IsMeanRoundedTo2(overall, SumValues(scores), n)
            /\ n = 0 => overall.num = 500 * overall.den
            /\ (\A f \in DOMAIN scores : scores[f] \in 0..1000) =>
                   (0 <= overall.num /\ overall.num <= 1000 * overall.den)

\* ------------------------------------------------------------------------
\* Properties of the image normalizer
\* ------------------------------------------------------------------------
CacheHashes(cache) == {cache[n].hash : n \in 1..Len(cache)}

\* the keys whose insertion is the earliest among the entries of the cache
Earliest(cache) ==
    LET moments == {cache[n].at : n \in 1..Len(cache)}
        first == CHOOSE a \in moments : \A b \in moments : a <= b
    IN {cache[n].hash : n \in {m \in 1..Len(cache) : cache[m].at = first}}

\* a call that was served from the cache in this step
HitStep(c) ==
    /\ calls[c].pc # "returned" \/ calls[c].seq # calls'[c].seq
    /\ calls'[c].pc = "returned"
    /\ calls'[c].steps = <<>>

\* what a returned value is made of, whichever call produced it
Content(out) ==
    [width |-> out.processed.width, height |-> out.processed.height,
     metadata |-> out.metadata]

Finished(c) == calls[c].pc \in {"returned", "threw"}

BadDimensions(buffer) ==
    \/ buffer.width = 0 \/ buffer.height = 0
    \/ buffer.width > DimensionCeiling \/ buffer.height > DimensionCeiling

\* C11: in every reachable state the image cache holds at most MAX_CACHE_SIZE
\* entries, and no two of its entries have the same content hash.
C11_CacheBounded ==
    /\ Len(imageCache) <= MAX_CACHE_SIZE
    /\ Cardinality(CacheHashes(imageCache)) = Len(imageCache)

\* a full cache into which two calls have inserted, each evicting an entry
C11_Witness ==
    /\ Len(imageCache) = MAX_CACHE_SIZE
    /\ imageCache[1].hash = 3
    /\ imageCache[MAX_CACHE_SIZE].value.processed.by > 0
    /\ imageCache[MAX_CACHE_SIZE - 1].value.processed.by > 0

C12_InsertStep ==
    LET victims == CacheHashes(imageCache) \ CacheHashes(imageCache') IN
      imageCache' # imageCache =>
        /\ Len(imageCache) < MAX_CACHE_SIZE => victims = {}
        /\ Len(imageCache) >= MAX_CACHE_SIZE => Cardinality(victims) = 1
        /\ victims \subseteq Earliest(imageCache)

C12_HitStep ==
    (\E c \in Callers : HitStep(c)) =>
        /\ imageCache' = imageCache
        /\ Earliest(imageCache') = Earliest(imageCache)

C13_SecondCall(c, d) ==
    /\ calls[c].pc = "returned"
    /\ calls'[d].seq = started + 1
    /\ started' = started + 1
    /\ calls'[d].buffer = calls[c].buffer
    /\ CacheHas(imageCache, Md5(calls[c].buffer))

\* C13: a call with the bytes of an earlier, successful call, made while the
\* entry is cached, returns the output of the earlier call, runs no step of
\* the codec and leaves the cache as it was.
C13_Original ==
    [][\A c, d \in Callers :
          (c # d /\ C13_SecondCall(c, d)) =>
              /\ calls'[d].pc = "returned"
              /\ Content(calls'[d].out) = Content(calls[c].out)
              /\ calls'[d].steps = <<>>
              /\ imageCache' = imageCache]_vars

\* C14: a call whose image has a missing dimension or one over 5000 px ends
\* in an error, and no resize or encoding was started for it; an image with
\* both dimensions in 1..5000 is not rejected for its dimensions.
C14_Original ==
    \A c \in Callers :
        /\ (calls[c].pc # "idle" /\ BadDimensions(calls[c].buffer)) =>
              /\ "toBuffer" \notin {calls[c].steps[n] : n \in 1..Len(calls[c].steps)}
              /\ calls[c].pc # "returned"
        /\ (Finished(c) /\ ~BadDimensions(calls[c].buffer)) =>
              calls[c].out # ImageProcessingFailed("Invalid image dimensions")

FitsInside(w, h, out, box) ==
    /\ out.width <= box /\ out.height <= box
    /\ out.width = box \/ out.height = box
    /\ 2 * (out.width * h - out.height * w) <= 2 * box + w + h
    /\ 2 * (out.height * w - out.width * h) <= 2 * box + w + h

\* C15: a call that ran the resize returns an image of the dimensions of its
\* input when these lie within the box of the module (800 or 1200), and
\* otherwise an image that fits the box and keeps the aspect ratio.
C15_Original ==
    \A c \in Callers :
        (calls[c].pc = "returned" /\ calls[c].steps # <<>>) =>
            LET o == Oriented(calls[c].buffer, Rotates(site))
                out == calls[c].out.processed
            IN IF o.width <= Box(site) /\ o.height <= Box(site)
               THEN out.width = o.width /\ out.height = o.height
               ELSE FitsInside(o.width, o.height, out, Box(site))

\* ------------------------------------------------------------------------
\* Properties of the validator
\* ------------------------------------------------------------------------
Calls == 1..Len(validations)

\* the call returned a ValidationResult (it did not throw)
ReturnedResult(n) == "isValid" \in DOMAIN validations[n].out

HasRemark(n, remark) == remark \in Range(validations[n].out.remarks)

\* the remarks that the details of a result stand for
DetailRemarks(details) ==
    UNION {{details[k].field \o <<": ">> \o details[k].messages[j] :
              j \in 1..Len(details[k].messages)} : k \in 1..Len(details)}

RECURSIVE CountMessages(_)
CountMessages(details) ==
    IF details = <<>> THEN 0
    ELSE Len(Head(details).messages) + CountMessages(Tail(details))

\* C16: every result returned has isValid true exactly when its remarks are
\* empty; in the version with details, details is empty exactly when remarks
\* is, and the remarks are, one for one, the messages of details.
C16_ValidIffNoRemarks ==
    \A n \in Calls : ReturnedResult(n) =>
        LET out == validations[n].out IN
          /\ out.isValid <=> (out.remarks = <<>>)
          /\ validator = "detailed" =>
                /\ (out.details = <<>>) <=> (out.remarks = <<>>)
                /\ Range(out.remarks) = DetailRemarks(out.details)
                /\ Len(out.remarks) = CountMessages(out.details)

\* a result of the version with details that has two messages for one field,
\* after a result of the same version that is valid
C16_Witness ==
    /\ validator = "detailed"
    /\ Len(validations) = 2
    /\ ReturnedResult(1) /\ ReturnedResult(2)
    /\ validations[1].out.isValid
    /\ ~validations[2].out.isValid
    /\ Len(validations[2].out.remarks) > Len(validations[2].out.details)

\* C17: no call of the validator throws, whatever form the fields have.
C17_Original == \A n \in Calls : ReturnedResult(n)

ExpiryRemarks ==
    { <<"dateOfExpiry", ": ", "Cannot be in the past">>,
      <<"Passport appears to be expired">>,
      <<"Passport is expired">> }

Expired(n) == \E remark \in ExpiryRemarks : HasRemark(n, remark)

Unwrapped(v) ==
    IF v.type = "string" THEN v.chars
    ELSE IF v.type = "object" THEN v.value
    ELSE <<>>

\* the result reports the field as a missing required field
RequiredRemark(n, field) ==
    \/ HasRemark(n, <<field, ": ", "Required field missing">>)
    \/ \E remark \in Range(validations[n].out.remarks) :
          /\ Head(remark) = "Missing required fields: "
          /\ field \in Range(Tail(remark))

\* C19: the two versions of validation.ts report a field of the six required
\* ones as missing exactly when its value, unwrapped, is empty or blank.
C19_Original ==
    \A n \in Calls : (ReturnedResult(n) /\ validator \in {"detailed", "simple"}) =>
        \A k \in 1..Len(RequiredFields) :
            RequiredRemark(n, RequiredFields[k])
               <=> (Trim(Unwrapped(validations[n].argument[RequiredFields[k]])) = <<>>)

OrderRemarks ==
    { <<"dateOfBirth", ": ", "Cannot be after issue date">>,
      <<"Issue date cannot be before date of birth">> }

OrderRemark(n) == \E remark \in OrderRemarks : HasRemark(n, remark)

\* C20: for valid dates given as strings, the date-order remark is reported,
\* and isValid is false, when dateOfBirth is later than dateOfIssue, and no
\* such remark is reported when it is not.
C20_Original ==
    \A n \in Calls :
        LET data == validations[n].argument
            dob == NewDate(data.dateOfBirth)
            doi == NewDate(data.dateOfIssue)
        IN (/\ ReturnedResult(n)
            /\ data.dateOfBirth.type = "string" /\ data.dateOfIssue.type = "string"
            /\ dob.valid /\ doi.valid) =>
              IF dob.day > doi.day
              THEN OrderRemark(n) /\ ~validations[n].out.isValid
              ELSE ~OrderRemark(n)

NationalityRemark(n) == HasRemark(n, <<"nationality", ": ", "Invalid country code">>)

\* the string is a code of the set, letter case apart
CodeIgnoringCase(s) ==
    \E code \in COUNTRY_CODES :
        /\ Len(s) = Len(code)
        /\ \A k \in 1..Len(code) :
              \/ s[k] = code[k]
              \/ \E j \in 1..Len(UpperLetters) :
                    UpperLetters[j] = code[k] /\ LowerLetters[j] = s[k]

\* the nationality a result of the first version was computed from
NationalityOf(n) ==
    LET v == validations[n].argument.nationality IN
      IF v.type = "string" THEN v.chars ELSE <<>>

InsertsAgain(c) ==
    /\ calls[c].pc = "toBuffer"
    /\ calls'[c].pc = "returned"
    /\ CacheHas(imageCache, Md5(calls[c].buffer))

\* C27: the value of a cached hash is never replaced while the hash stays
\* cached, and the later of two calls for the same bytes that both missed
\* evicts no other entry.
C27_Original ==
    [][/\ \A h \in CacheHashes(imageCache) \cap CacheHashes(imageCache') :
             CacheGet(imageCache', h) = CacheGet(imageCache, h)
       /\ \A c \in Callers : InsertsAgain(c) =>
             CacheHashes(imageCache) \subseteq CacheHashes(imageCache')]_vars

\* the call ends in an error in this step
FailStep(c) ==
    /\ calls[c].pc \in {"metadata", "toBuffer"}
    /\ calls'[c].pc = "threw"

\* d is called in this step, in a module with a cache, with the bytes that
\* an earlier call c failed on
LaterCall(c, d) ==
    /\ Cached(site)
    /\ c # d
    /\ calls[c].pc = "threw"
    /\ started' = started + 1
    /\ calls'[d].seq = started + 1
    /\ calls'[d].buffer = calls[c].buffer

\* d, called after c failed on the same bytes, ends in this step
LaterCallEnds(c, d) ==
    /\ c # d
    /\ calls[c].pc = "threw"
    /\ calls[d].pc \in {"metadata", "toBuffer"}
    /\ calls[d].buffer = calls[c].buffer
    /\ calls[d].seq > calls[c].seq
    /\ calls'[d].pc \in {"returned", "threw"}

FailsAgain(c, d) == calls'[d].pc = "threw" /\ calls'[d].out = calls[c].out

Sources(entry) ==
    {buffer \in Buffers \cup {WarmBuffer(entry.hash)} :
        /\ Md5(buffer) = entry.hash
        /\ buffer.decodes /\ buffer.encodes /\ ~BadDimensions(buffer)
        /\ Content(entry.value) = Content(Normalized(buffer, site, 0))}

C23_ParseFailureOnly ==
    (kind = "pdf" /\ response.status = 500) =>
        /\ response = ErrorResponse(500, "PDF processing failed")
        /\ dispatched = 0
        /\ status = <<>> /\ chunkResults = <<>>
        /\ results = <<>> /\ errors = <<>>

\* the document failed to load and the handler has answered
C23_Witness ==
    /\ kind = "pdf"
    /\ pc = "done"
    /\ response.status = 500
    /\ numPages = 0

\* the steps of a page: Pending, text extraction awaited, rasterization
\* awaited, thumbnail awaited, extraction awaited, Succeeded, Failed
PageEdges ==
    { <<"pending", "extractTextFromPdfPage">>,
      <<"extractTextFromPdfPage", "convertPdfPageToImage">>,
      <<"convertPdfPageToImage", "thumbnail">>,
      <<"convertPdfPageToImage", "caught">>,
      <<"thumbnail", "extractPassportData">>,
      <<"thumbnail", "caught">>,
      <<"extractPassportData", "returned">> }

PageStep ==
    kind = "pdf" =>
        \A k \in DOMAIN status \cap DOMAIN status' :
            status'[k] = status[k] \/ <<status[k], status'[k]>> \in PageEdges

ResultsFor(k) == {x \in 1..Len(results) : ResultKey(results[x]) = k}

PageOutcome ==
    kind = "pdf" =>
        \A k \in Items :
            /\ attempts[k] <= 1
            /\ Cardinality(ResultsFor(k)) + Cardinality(ErrorsFor(k)) <= 1
            /\ ErrorsFor(k) # {} <=> status[k] = "caught"
            /\ ResultsFor(k) # {} => status[k] = "returned"
            /\ ChunkLoopOver =>
                  Cardinality(ResultsFor(k)) + Cardinality(ErrorsFor(k)) = 1

\* C25: a page moves only forward through text extraction, rasterization,
\* thumbnail and extraction, so that its extraction is requested only after
\* its text extraction and rasterization have completed; it is started once
\* and no step is taken twice; once the chunk loop is over it has exactly
\* one results entry (Succeeded) or exactly one errors entry (Failed).
C25_PageLifecycle == [][PageStep]_vars /\ []PageOutcome

\* a document whose pages ended both ways
C25_Witness ==
    /\ kind = "pdf"
    /\ ChunkLoopOver
    /\ numPages >= 4
    /\ status[1] = "caught" /\ status[2] = "returned"
    /\ status[4] = "caught"
    /\ Len(errors) = 2 /\ Len(results) = numPages - 2

\* C28: results is in strictly increasing order of original index
\* (pageNumber), whatever the order in which the items of a chunk completed;
\* errors is in the order the failing closures ran their catch blocks.
C28_ResultsInIndexOrder ==
    \A x \in 1..(Len(results) - 1) : ResultKey(results[x]) < ResultKey(results[x + 1])

\* results of two chunks in index order while errors is out of index order
C28_Witness ==
    /\ kind = "image"
    /\ ChunkLoopOver
    /\ Len(chunks) = 2
    /\ Len(results) >= 3
    /\ Len(errors) >= 2
    /\ errors[1].index > errors[2].index
    /\ results[1].index < errors[1].index
    /\ results[Len(results)].index >= IMAGE_MAX_CONCURRENT

\* the extraction of the item in slot index of the chunk in flight came back
\* empty, and the item awaits its thumbnail
ExtractionFailed(index) ==
    /\ pc = "chunks"
    /\ kind = "image"
    /\ index \in 1..Len(chunks[i + 1])
    /\ status[Item(index)] = "thumbnail"
    /\ chunkResults[index].result.extractedData = "empty"

\* C29: an item whose extraction call failed is never recorded in errors.
C29_Original ==
    [][\A index \in 1..IMAGE_MAX_CONCURRENT :
          ExtractionFailed(index) => status'[Item(index)] # "caught"]_vars

\* errors grows only by the catch of a step outside the extraction client
ErrorsOnlyOutsideExtraction ==
    errors' # errors =>
        \E k \in Items :
            /\ status[k] \in {"processImage", "thumbnail", "convertPdfPageToImage"}
            /\ status'[k] = "caught"
            /\ Len(errors') = Len(errors) + 1
            /\ ErrorKey(errors'[Len(errors')]) = k

\* the await of the extraction client never ends in the catch block
ExtractionReturns ==
    \A k \in DOMAIN status \cap DOMAIN status' :
        status[k] = "extractPassportData" => status'[k] # "caught"

EmptyResultsCounted ==
    /\ \A x \in 1..Len(results) :
          results[x].data = "empty" => results[x].confidenceScore = 0
    /\ JsonOk => response.summary.successfullyProcessed = Len(results)

\* C29 (amended): the failure of the extraction call never takes an item to
\* the catch block: errors grows only by failures of normalization, size
\* check, rasterization or thumbnail.  The item goes on; unless a later step
\* of its closure fails (the thumbnail, in the image handler) it appears in
\* results with empty data and confidenceScore 0 and is counted in
\* successfullyProcessed.
C29_ExtractionFailureIsAResult ==
    [][ErrorsOnlyOutsideExtraction /\ ExtractionReturns]_vars /\ []EmptyResultsCounted

\* a batch answered with an empty result among its results and no error
C29_Witness ==
    /\ JsonOk
    /\ kind = "image"
    /\ Len(results) >= 2
    /\ results[1].data = "empty" /\ results[1].confidenceScore = 0
    /\ results[2].data = "parsed"
    /\ errors = <<>>
    /\ response.summary.successfullyProcessed = Len(files)

\* the response is produced only once every chunk was dispatched and drained
AnsweredAfterLastChunk ==
    ChunkLoopOver =>
        /\ i = Len(chunks)
        /\ dispatched = Len(chunks)
        /\ \A k \in Items : Settled(status[k])

\* C26: a run that has started its chunk loop ends with its response, sent
\* after every chunk was dispatched and every item of the last chunk has
\* settled; nothing takes the handler out of the chunk loop before that.
C26_RunCompletes ==
    /\ []AnsweredAfterLastChunk
    /\ (pc = "chunks") ~> (pc = "done" /\ response.status = 200)

\* the summary of a run of two chunks, with a failure in each
C26_Witness ==
    /\ JsonOk
    /\ Len(chunks) = 2
    /\ dispatched = 2
    /\ Len(errors) = 2
    /\ ChunkOf(ErrorKey(errors[1])) = 0 /\ ChunkOf(ErrorKey(errors[2])) = 1
    /\ response.summary.total = TotalItems

\* ------------------------------------------------------------------------
\* Properties of the routes for a single upload
\* ------------------------------------------------------------------------
Did(what) == \E n \in 1..Len(effects) : effects[n].what = what

\* the page loop reached page q
Visited(q) == \E n \in 1..Len(effects) : effects[n].page = q

\* C22: once the document route has answered, a page that failed has not
\* ended the document: every later page was processed.
C22_Original ==
    (route = "extract-pdf-passport" /\ rpc = "done") =>
        \A n \in 1..Len(effects) :
            (effects[n].page >= 1 /\ effects[n].what \in {"failed", "aborted"}) =>
                /\ effects[n].what = "failed"
                /\ \A q \in (effects[n].page + 1)..pageCount : Visited(q)

\* C24: a request made while the API key is missing is answered with an
\* error before the upload is read, with no normalization and no inference
\* request.
C24_Original ==
    (route = "extract-passport" /\ ~apiKey) =>
        /\ ~Did("upload") /\ ~Did("normalize") /\ ~Did("inference")
        /\ rpc = "done"
        /\ reply.status >= 400

====
